---- MODULE Spec2Model ----
(***************************************************************************)
(* Model of the epoll_api crate: the registration table (Api), the monitor *)
(* (EPoll) and the kernel interest list they mirror.                       *)
(*                                                                         *)
(* Options are sequences: << >> is None, <<x>> is Some(x).                 *)
(***************************************************************************)
EXTENDS Integers, Sequences, FiniteSets, TLC

\* ---------------------------------------------------------------- bounds
MaxFd == 2
MaxToken == 2
MaxCap == 1
\* owning token kinds: releases counted per allocation, owned handles the
\* caller holds per pointer
MaxRelease == 2
MaxHeld == 2
\* bounded values: how far around each limit the arguments are taken
Spread == 2
\* read_until_wouldblock: the length and the spare capacity of output at
\* the call, read_size, and the bytes the reader delivers in one call.
MaxLen == 1
MaxSpare == 2
MaxRead == 2
MaxStream == 3
\* EPoll::new and resize_buffer: the largest max_events asked for
MaxBound == 2
\* examples/server.rs: the bytes a client's buffer holds at most
MaxPending == 2

\* RawFd values handed to the monitor
RawFds == 1..MaxFd

\* Data<T> values (the user token stored in the epoll_data union)
Tokens == 1..MaxToken

\* Interest bits a caller registers, and the bits the kernel may report
\* although they were never asked for (epoll_ctl(2)).
InterestBits == {"EPOLLIN", "EPOLLOUT"}
UnsolicitedBits == {"EPOLLERR", "EPOLLHUP"}
\* The interest sets callers register: read only, or read and write.
Flags == {{"EPOLLIN"}, InterestBits}

VARIABLES
    datas,      \* Api.datas: HashMap<RawFd, Data<T>>
    kernel,     \* interest list of the epoll instance: fd -> RawEvent
    buffer,     \* EPoll.buffer: [cap, len] of the Vec<MaybeUninit<Event<T>>>
    events,     \* Wait.events: the batch a successful wait returned; the
                \* borrow is modelled as ending with the next call
    ret,        \* the most recent call and what it returned
    effects,    \* side effects of the most recent call, in program order
    given,      \* fd -> token most recently handed in by add / mod_event
    registered, \* fd -> flags most recently registered by a successful
                \* add / mod_flags / mod_event
    heap,       \* owning token kinds: the allocation behind each pointer
    held,       \* owning token kinds: how many owned Data<T> values the
                \* caller holds for each pointer
    closed,     \* the monitor was consumed by close() / drop()
    handle,     \* the kernel handle of the monitor: its close-on-exec
                \* flag, and the max_events bound asked for last
    drain,      \* utils::read_until_wouldblock: the call in progress, its
                \* accumulator and what the reader delivered
    server      \* examples/server.rs: where main is, its clients and its
                \* deletion queue

vars == <<datas, kernel, buffer, events, ret, effects, given, registered,
          heap, held, closed, handle, drain, server>>

\* ------------------------------------------------------------- helpers
\* HashMap::insert / the write through an occupied entry
Insert(m, k, v) == [x \in DOMAIN m \cup {k} |-> IF x = k THEN v ELSE m[x]]

\* HashMap::remove / OccupiedEntry::remove
Remove(m, k) == [x \in DOMAIN m \ {k} |-> m[x]]

Event(flags, data) == [flags |-> flags, data |-> data]

\* One effect of a call: a kernel control call ...
Ctl(op, fd, ev, ok) ==
    [kind |-> "ctl", op |-> op, fd |-> fd, flags |-> ev.flags,
     data |-> ev.data, ok |-> ok, n |-> IF ok THEN 0 ELSE -1]

\* ... a kernel wait call with its maxevents argument and return value ...
KWait(maxevents, n) ==
    [kind |-> "wait", op |-> "EPOLL_WAIT", fd |-> -1, flags |-> {},
     data |-> maxevents, ok |-> n >= 0, n |-> n]

\* ... or a write to the registration table.
Table(op, fd) ==
    [kind |-> "table", op |-> op, fd |-> fd, flags |-> {},
     data |-> 0, ok |-> TRUE, n |-> 0]

\* epoll_ctl(2): whether the kernel accepts the call. `ok` is the part the
\* program cannot see (EBADF, ENOMEM, EPERM, ...); EEXIST and ENOENT follow
\* from the interest list.
CtlOk(k, op, fd, ok) ==
    /\ ok
    /\ op = "EPOLL_CTL_ADD" => fd \notin DOMAIN k
    /\ op \in {"EPOLL_CTL_MOD", "EPOLL_CTL_DEL"} => fd \in DOMAIN k

\* epoll_ctl(2): the interest list after the call.
EpollCtl(k, op, fd, ev, ok) ==
    IF ~CtlOk(k, op, fd, ok) THEN k
    ELSE IF op = "EPOLL_CTL_DEL" THEN Remove(k, fd)
    ELSE Insert(k, fd, ev)

\* A call and its outcome: the arguments (fd, flags, data), the io::Result
\* kind, the token returned by value (old), the table slot the returned
\* &mut Data<T> points into (ref), and the table as the call found it.
Result(op, fd, flags, data, res, old, ref, before) ==
    [op |-> op, fd |-> fd, flags |-> flags, data |-> data, res |-> res,
     old |-> old, ref |-> ref, before |-> before]

\* Payload contents behind an owning token.
Values == {"a", "b"}

\* An address Box::new has not handed out yet.
Unallocated == [alloc |-> FALSE, rel |-> 0, val |-> "a"]

\* No read_until_wouldblock call was made.
NoDrain ==
    [pc |-> "idle", version |-> "utils/mod.rs", requested |-> 1,
     read_size |-> 1,
     len |-> 0, cap |-> 0, len0 |-> 0, cap0 |-> 0, output |-> << >>,
     total |-> 0, delivered |-> 0, reads |-> 0, last |-> "none",
     reserved |-> FALSE,
     result |-> [tag |-> "none", v |-> 0, kind |-> "none"]]

\* main of examples/server.rs was not started.
NoServer ==
    [pc |-> "idle", listener |-> 0, clients |-> << >>, dels |-> << >>,
     i |-> 0, wb |-> [fd |-> 0, res |-> "none"]]


\* ---------------------------------------------------------------- Init
\* EPoll::new(close_exec, max_events): empty table, buffer of capacity
\* at least max_events (Vec::with_capacity), length 0.  The handle is
\* that of new(false, MaxEvents::MIN); the action New takes the other
\* arguments.
Init ==
    /\ datas = << >>
    /\ kernel = << >>
    /\ \E m \in 1..MaxCap : \E c \in m..MaxCap :
          buffer = [cap |-> c, len |-> 0]
    /\ events = << >>
    /\ ret = Result("new", -1, << >>, << >>, "Ok", << >>, << >>, << >>)
    /\ effects = << >>
    /\ given = << >>
    /\ registered = << >>
    /\ heap = [p \in Tokens |-> Unallocated]
    /\ held = [p \in Tokens |-> 0]
    /\ closed = FALSE
    /\ handle = [cloexec |-> FALSE, max_events |-> 1]
    /\ drain = NoDrain
    /\ server = NoServer

\* ------------------------------------------------------------- Api::add
\* Variants of add used to test the properties below.
\* The insert is not guarded by the kernel's answer.
Add_InsertOnFailure(fd, ev, ok) ==
    IF fd \in DOMAIN datas
    THEN /\ ret' = Result("add", fd, <<ev.flags>>, <<ev.data>>,
                          "AlreadyExists", << >>, << >>, datas)
         /\ effects' = << >>
         /\ events' = << >>
         /\ UNCHANGED <<datas, kernel, buffer, given>>
    ELSE LET success == CtlOk(kernel, "EPOLL_CTL_ADD", fd, ok)
             call == Ctl("EPOLL_CTL_ADD", fd, ev, success)
         IN /\ kernel' = EpollCtl(kernel, "EPOLL_CTL_ADD", fd, ev, ok)
            /\ datas' = Insert(datas, fd, ev.data)
            /\ given' = Insert(given, fd, ev.data)
            /\ effects' = <<call, Table("insert", fd)>>
            /\ ret' = Result("add", fd, <<ev.flags>>, <<ev.data>>,
                             IF success THEN "Ok" ELSE "OsError", << >>,
                             IF success THEN <<fd>> ELSE << >>, datas)
            /\ events' = << >>
            /\ UNCHANGED buffer

\* The presence check is left to the kernel (EEXIST).
Add_NoPresenceCheck(fd, ev, ok) ==
    LET success == CtlOk(kernel, "EPOLL_CTL_ADD", fd, ok)
        call == Ctl("EPOLL_CTL_ADD", fd, ev, success)
    IN /\ kernel' = EpollCtl(kernel, "EPOLL_CTL_ADD", fd, ev, ok)
       /\ IF success
          THEN /\ datas' = Insert(datas, fd, ev.data)
               /\ given' = Insert(given, fd, ev.data)
               /\ effects' = <<call, Table("insert", fd)>>
               /\ ret' = Result("add", fd, <<ev.flags>>, <<ev.data>>,
                                "Ok", << >>, <<fd>>, datas)
          ELSE /\ effects' = <<call>>
               /\ ret' = Result("add", fd, <<ev.flags>>, <<ev.data>>,
                                "OsError", << >>, << >>, datas)
               /\ UNCHANGED <<datas, given>>
       /\ events' = << >>
       /\ UNCHANGED buffer

\* The kernel call succeeds but the token is never stored.
Add_NoInsert(fd, ev, ok) ==
    IF fd \in DOMAIN datas
    THEN /\ ret' = Result("add", fd, <<ev.flags>>, <<ev.data>>,
                          "AlreadyExists", << >>, << >>, datas)
         /\ effects' = << >>
         /\ events' = << >>
         /\ UNCHANGED <<datas, kernel, buffer, given>>
    ELSE LET success == CtlOk(kernel, "EPOLL_CTL_ADD", fd, ok)
             call == Ctl("EPOLL_CTL_ADD", fd, ev, success)
         IN /\ kernel' = EpollCtl(kernel, "EPOLL_CTL_ADD", fd, ev, ok)
            /\ effects' = <<call>>
            /\ ret' = Result("add", fd, <<ev.flags>>, <<ev.data>>,
                             IF success THEN "Ok" ELSE "OsError", << >>,
                             IF success THEN <<fd>> ELSE << >>, datas)
            /\ events' = << >>
            /\ UNCHANGED <<datas, given, buffer>>

\* The token is inserted before the kernel call and taken out again when
\* the kernel refuses: same final table, different order.
Add_InsertFirst(fd, ev, ok) ==
    IF fd \in DOMAIN datas
    THEN /\ ret' = Result("add", fd, <<ev.flags>>, <<ev.data>>,
                          "AlreadyExists", << >>, << >>, datas)
         /\ effects' = << >>
         /\ events' = << >>
         /\ UNCHANGED <<datas, kernel, buffer, given>>
    ELSE LET success == CtlOk(kernel, "EPOLL_CTL_ADD", fd, ok)
             call == Ctl("EPOLL_CTL_ADD", fd, ev, success)
         IN /\ kernel' = EpollCtl(kernel, "EPOLL_CTL_ADD", fd, ev, ok)
            /\ IF success
               THEN /\ datas' = Insert(datas, fd, ev.data)
                    /\ given' = Insert(given, fd, ev.data)
                    /\ effects' = <<Table("insert", fd), call>>
                    /\ ret' = Result("add", fd, <<ev.flags>>, <<ev.data>>,
                                     "Ok", << >>, <<fd>>, datas)
               ELSE /\ effects' = <<Table("insert", fd), call,
                                    Table("remove", fd)>>
                    /\ ret' = Result("add", fd, <<ev.flags>>, <<ev.data>>,
                                     "OsError", << >>, << >>, datas)
                    /\ UNCHANGED <<datas, given>>
            /\ events' = << >>
            /\ UNCHANGED buffer

Add(fd, ev, ok) ==
    IF fd \in DOMAIN datas
    THEN /\ ret' = Result("add", fd, <<ev.flags>>, <<ev.data>>,
                          "AlreadyExists", << >>, << >>, datas)
         /\ effects' = << >>
         /\ events' = << >>
         /\ UNCHANGED <<datas, kernel, buffer, given>>
    ELSE LET success == CtlOk(kernel, "EPOLL_CTL_ADD", fd, ok)
             call == Ctl("EPOLL_CTL_ADD", fd, ev, success)
         IN /\ kernel' = EpollCtl(kernel, "EPOLL_CTL_ADD", fd, ev, ok)
            /\ IF success
               THEN /\ datas' = Insert(datas, fd, ev.data)
                    /\ given' = Insert(given, fd, ev.data)
                    /\ effects' = <<call, Table("insert", fd)>>
                    /\ ret' = Result("add", fd, <<ev.flags>>, <<ev.data>>,
                                     "Ok", << >>, <<fd>>, datas)
               ELSE /\ effects' = <<call>>
                    /\ ret' = Result("add", fd, <<ev.flags>>, <<ev.data>>,
                                     "OsError", << >>, << >>, datas)
                    /\ UNCHANGED <<datas, given>>
            /\ events' = << >>
            /\ UNCHANGED buffer

\* ------------------------------------------------------- Api::mod_flags
\* The raw event is built with a zeroed data field.
ModFlags_ZeroData(fd, flags, ok) ==
    IF fd \in DOMAIN datas
    THEN LET raw_event == Event(flags, 0)
             success == CtlOk(kernel, "EPOLL_CTL_MOD", fd, ok)
         IN /\ kernel' = EpollCtl(kernel, "EPOLL_CTL_MOD", fd, raw_event, ok)
            /\ effects' = <<Ctl("EPOLL_CTL_MOD", fd, raw_event, success)>>
            /\ ret' = Result("mod_flags", fd, <<flags>>, << >>,
                             IF success THEN "Ok" ELSE "OsError",
                             << >>, << >>, datas)
            /\ events' = << >>
            /\ UNCHANGED <<datas, buffer, given>>
    ELSE /\ ret' = Result("mod_flags", fd, <<flags>>, << >>, "NotFound",
                          << >>, << >>, datas)
         /\ effects' = << >>
         /\ events' = << >>
         /\ UNCHANGED <<datas, kernel, buffer, given>>

\* The kernel is asked for every interest bit, whatever the caller passed.
ModFlags_AllFlags(fd, flags, ok) ==
    IF fd \in DOMAIN datas
    THEN LET data == datas[fd]
             raw_event == Event(InterestBits, data)
             success == CtlOk(kernel, "EPOLL_CTL_MOD", fd, ok)
         IN /\ kernel' = EpollCtl(kernel, "EPOLL_CTL_MOD", fd, raw_event, ok)
            /\ effects' = <<Ctl("EPOLL_CTL_MOD", fd, raw_event, success)>>
            /\ ret' = Result("mod_flags", fd, <<flags>>, << >>,
                             IF success THEN "Ok" ELSE "OsError",
                             << >>, << >>, datas)
            /\ events' = << >>
            /\ UNCHANGED <<datas, buffer, given>>
    ELSE /\ ret' = Result("mod_flags", fd, <<flags>>, << >>, "NotFound",
                          << >>, << >>, datas)
         /\ effects' = << >>
         /\ events' = << >>
         /\ UNCHANGED <<datas, kernel, buffer, given>>

ModFlags(fd, flags, ok) ==
    IF fd \in DOMAIN datas
    THEN LET data == datas[fd]
             raw_event == Event(flags, data)
             success == CtlOk(kernel, "EPOLL_CTL_MOD", fd, ok)
         IN /\ kernel' = EpollCtl(kernel, "EPOLL_CTL_MOD", fd, raw_event, ok)
            /\ effects' = <<Ctl("EPOLL_CTL_MOD", fd, raw_event, success)>>
            /\ ret' = Result("mod_flags", fd, <<flags>>, << >>,
                             IF success THEN "Ok" ELSE "OsError",
                             << >>, << >>, datas)
            /\ events' = << >>
            /\ UNCHANGED <<datas, buffer, given>>
    ELSE /\ ret' = Result("mod_flags", fd, <<flags>>, << >>, "NotFound",
                          << >>, << >>, datas)
         /\ effects' = << >>
         /\ events' = << >>
         /\ UNCHANGED <<datas, kernel, buffer, given>>

\* ---------------------------------- Api::get_datas / Api::get_data_mut
GetDatas == datas

\* Variant of get_data_mut used to test the properties below: the key is
\* ignored and the first occupied slot is handed out.
GetDataMut_AnySlot(fd) ==
    /\ ret' = Result("get_data_mut", fd, << >>, << >>, "Ok", << >>,
                     IF GetDatas # << >>
                     THEN <<CHOOSE d \in DOMAIN GetDatas : TRUE>>
                     ELSE << >>, datas)
    /\ effects' = << >>
    /\ UNCHANGED <<datas, kernel, buffer, events, given>>

\* Api::get_data_mut borrows the table alone, so a batch that lends the
\* table out (Wait.api) stays usable across the lookup.
GetDataMut(fd) ==
    /\ ret' = Result("get_data_mut", fd, << >>, << >>, "Ok", << >>,
                     IF fd \in DOMAIN GetDatas THEN <<fd>> ELSE << >>, datas)
    /\ effects' = << >>
    /\ UNCHANGED <<datas, kernel, buffer, events, given>>

\* ----------------------------------------------------- EPoll::mod_event
\* The value handed back is read after the replacement.
ModEvent_ReturnsNew(fd, ev, ok) ==
    IF fd \in DOMAIN datas
    THEN LET success == CtlOk(kernel, "EPOLL_CTL_MOD", fd, ok)
             call == Ctl("EPOLL_CTL_MOD", fd, ev, success)
         IN /\ kernel' = EpollCtl(kernel, "EPOLL_CTL_MOD", fd, ev, ok)
            /\ IF success
               THEN /\ datas' = Insert(datas, fd, ev.data)
                    /\ given' = Insert(given, fd, ev.data)
                    /\ effects' = <<call, Table("replace", fd)>>
                    /\ ret' = Result("mod_event", fd, <<ev.flags>>,
                                     <<ev.data>>, "Ok", <<ev.data>>,
                                     <<fd>>, datas)
               ELSE /\ effects' = <<call>>
                    /\ ret' = Result("mod_event", fd, <<ev.flags>>,
                                     <<ev.data>>, "OsError", << >>, << >>,
                                     datas)
                    /\ UNCHANGED <<datas, given>>
            /\ events' = << >>
            /\ UNCHANGED buffer
    ELSE /\ ret' = Result("mod_event", fd, <<ev.flags>>, <<ev.data>>,
                          "NotFound", << >>, << >>, datas)
         /\ effects' = << >>
         /\ events' = << >>
         /\ UNCHANGED <<datas, kernel, buffer, given>>

\* The old token is taken out with HashMap::remove and put back only when
\* the kernel accepted the change.
ModEvent_RemovesOnFailure(fd, ev, ok) ==
    IF fd \in DOMAIN datas
    THEN LET success == CtlOk(kernel, "EPOLL_CTL_MOD", fd, ok)
             call == Ctl("EPOLL_CTL_MOD", fd, ev, success)
         IN /\ kernel' = EpollCtl(kernel, "EPOLL_CTL_MOD", fd, ev, ok)
            /\ IF success
               THEN /\ datas' = Insert(datas, fd, ev.data)
                    /\ given' = Insert(given, fd, ev.data)
                    /\ effects' = <<call, Table("replace", fd)>>
                    /\ ret' = Result("mod_event", fd, <<ev.flags>>,
                                     <<ev.data>>, "Ok", <<datas[fd]>>,
                                     <<fd>>, datas)
               ELSE /\ datas' = Remove(datas, fd)
                    /\ given' = Remove(given, fd)
                    /\ effects' = <<Table("remove", fd), call>>
                    /\ ret' = Result("mod_event", fd, <<ev.flags>>,
                                     <<ev.data>>, "OsError", << >>, << >>,
                                     datas)
            /\ events' = << >>
            /\ UNCHANGED buffer
    ELSE /\ ret' = Result("mod_event", fd, <<ev.flags>>, <<ev.data>>,
                          "NotFound", << >>, << >>, datas)
         /\ effects' = << >>
         /\ events' = << >>
         /\ UNCHANGED <<datas, kernel, buffer, given>>

ModEvent(fd, ev, ok) ==
    IF fd \in DOMAIN datas
    THEN LET success == CtlOk(kernel, "EPOLL_CTL_MOD", fd, ok)
             call == Ctl("EPOLL_CTL_MOD", fd, ev, success)
         IN /\ kernel' = EpollCtl(kernel, "EPOLL_CTL_MOD", fd, ev, ok)
            /\ IF success
               THEN /\ datas' = Insert(datas, fd, ev.data)
                    /\ given' = Insert(given, fd, ev.data)
                    /\ effects' = <<call, Table("replace", fd)>>
                    /\ ret' = Result("mod_event", fd, <<ev.flags>>,
                                     <<ev.data>>, "Ok", <<datas[fd]>>,
                                     <<fd>>, datas)
               ELSE /\ effects' = <<call>>
                    /\ ret' = Result("mod_event", fd, <<ev.flags>>,
                                     <<ev.data>>, "OsError", << >>, << >>,
                                     datas)
                    /\ UNCHANGED <<datas, given>>
            /\ events' = << >>
            /\ UNCHANGED buffer
    ELSE /\ ret' = Result("mod_event", fd, <<ev.flags>>, <<ev.data>>,
                          "NotFound", << >>, << >>, datas)
         /\ effects' = << >>
         /\ events' = << >>
         /\ UNCHANGED <<datas, kernel, buffer, given>>

\* ----------------------------------------------------------- EPoll::del
\* The entry is taken out of the table before the kernel is asked.
Del_RemoveFirst(fd, ok) ==
    IF fd \in DOMAIN datas
    THEN LET null == Event({}, 0)
             success == CtlOk(kernel, "EPOLL_CTL_DEL", fd, ok)
             call == Ctl("EPOLL_CTL_DEL", fd, null, success)
         IN /\ kernel' = EpollCtl(kernel, "EPOLL_CTL_DEL", fd, null, ok)
            /\ datas' = Remove(datas, fd)
            /\ given' = Remove(given, fd)
            /\ effects' = <<Table("remove", fd), call>>
            /\ ret' = Result("del", fd, << >>, << >>,
                             IF success THEN "Ok" ELSE "OsError",
                             IF success THEN <<datas[fd]>> ELSE << >>,
                             << >>, datas)
            /\ events' = << >>
            /\ UNCHANGED buffer
    ELSE /\ ret' = Result("del", fd, << >>, << >>, "NotFound", << >>, << >>,
                          datas)
         /\ effects' = << >>
         /\ events' = << >>
         /\ UNCHANGED <<datas, kernel, buffer, given>>

\* The presence check is left to the kernel (ENOENT).
Del_NoPresenceCheck(fd, ok) ==
    LET null == Event({}, 0)
        success == CtlOk(kernel, "EPOLL_CTL_DEL", fd, ok)
        call == Ctl("EPOLL_CTL_DEL", fd, null, success)
    IN /\ kernel' = EpollCtl(kernel, "EPOLL_CTL_DEL", fd, null, ok)
       /\ IF success
          THEN /\ datas' = Remove(datas, fd)
               /\ given' = Remove(given, fd)
               /\ effects' = <<call, Table("remove", fd)>>
               /\ ret' = Result("del", fd, << >>, << >>, "Ok",
                                <<datas[fd]>>, << >>, datas)
          ELSE /\ effects' = <<call>>
               /\ ret' = Result("del", fd, << >>, << >>, "OsError",
                                << >>, << >>, datas)
               /\ UNCHANGED <<datas, given>>
       /\ events' = << >>
       /\ UNCHANGED buffer

\* The token is read from the entry, which stays in the table.
Del_KeepsEntry(fd, ok) ==
    IF fd \in DOMAIN datas
    THEN LET null == Event({}, 0)
             success == CtlOk(kernel, "EPOLL_CTL_DEL", fd, ok)
             call == Ctl("EPOLL_CTL_DEL", fd, null, success)
         IN /\ kernel' = EpollCtl(kernel, "EPOLL_CTL_DEL", fd, null, ok)
            /\ effects' = <<call>>
            /\ ret' = Result("del", fd, << >>, << >>,
                             IF success THEN "Ok" ELSE "OsError",
                             IF success THEN <<datas[fd]>> ELSE << >>,
                             << >>, datas)
            /\ events' = << >>
            /\ UNCHANGED <<datas, given, buffer>>
    ELSE /\ ret' = Result("del", fd, << >>, << >>, "NotFound", << >>, << >>,
                          datas)
         /\ effects' = << >>
         /\ events' = << >>
         /\ UNCHANGED <<datas, kernel, buffer, given>>

\* The error of the kernel call is dropped: the entry is popped and
\* returned whatever the kernel answered.
Del_IgnoresError(fd, ok) ==
    IF fd \in DOMAIN datas
    THEN LET null == Event({}, 0)
             success == CtlOk(kernel, "EPOLL_CTL_DEL", fd, ok)
             call == Ctl("EPOLL_CTL_DEL", fd, null, success)
         IN /\ kernel' = EpollCtl(kernel, "EPOLL_CTL_DEL", fd, null, ok)
            /\ datas' = Remove(datas, fd)
            /\ given' = Remove(given, fd)
            /\ effects' = <<call, Table("remove", fd)>>
            /\ ret' = Result("del", fd, << >>, << >>, "Ok", <<datas[fd]>>,
                             << >>, datas)
            /\ events' = << >>
            /\ UNCHANGED buffer
    ELSE /\ ret' = Result("del", fd, << >>, << >>, "NotFound", << >>, << >>,
                          datas)
         /\ effects' = << >>
         /\ events' = << >>
         /\ UNCHANGED <<datas, kernel, buffer, given>>

Del(fd, ok) ==
    IF fd \in DOMAIN datas
    THEN LET null == Event({}, 0)
             success == CtlOk(kernel, "EPOLL_CTL_DEL", fd, ok)
             call == Ctl("EPOLL_CTL_DEL", fd, null, success)
         IN /\ kernel' = EpollCtl(kernel, "EPOLL_CTL_DEL", fd, null, ok)
            /\ IF success
               THEN /\ datas' = Remove(datas, fd)
                    /\ given' = Remove(given, fd)
                    /\ effects' = <<call, Table("remove", fd)>>
                    /\ ret' = Result("del", fd, << >>, << >>, "Ok",
                                     <<datas[fd]>>, << >>, datas)
               ELSE /\ effects' = <<call>>
                    /\ ret' = Result("del", fd, << >>, << >>, "OsError",
                                     << >>, << >>, datas)
                    /\ UNCHANGED <<datas, given>>
            /\ events' = << >>
            /\ UNCHANGED buffer
    ELSE /\ ret' = Result("del", fd, << >>, << >>, "NotFound", << >>, << >>,
                          datas)
         /\ effects' = << >>
         /\ events' = << >>
         /\ UNCHANGED <<datas, kernel, buffer, given>>

\* ---------------------------------------------------------- EPoll::wait
\* epoll_wait(2): the records the kernel may write for a registered fd.
Revents(interest) ==
    {interest \cap {"EPOLLIN"}, interest \cup UnsolicitedBits,
     {"EPOLLHUP"}} \ {{}}

Ready(k) ==
    UNION {{[fd |-> f, flags |-> r, data |-> k[f].data] :
               r \in Revents(k[f].flags)} : f \in DOMAIN k}

\* epoll_wait(2): the batches of at most maxevents records, one per fd, in
\* any order.
RECURSIVE Batches(_, _)
Batches(k, maxevents) ==
    IF maxevents = 0 \/ k = << >> THEN {<< >>}
    ELSE LET shorter == Batches(k, maxevents - 1)
         IN shorter \cup
            {Append(b, r) :
               <<b, r>> \in {x \in {p \in shorter : Len(p) = maxevents - 1}
                                     \X Ready(k) :
                               \A i \in DOMAIN x[1] : x[1][i].fd # x[2].fd}}

\* A buffer record the kernel did not write.
Uninit == [fd |-> -1, flags |-> {}, data |-> 0]

\* The slice over the first len records of the buffer after the kernel
\* wrote `written` at its start.
Slice(written, len) ==
    [i \in 1..len |-> IF i <= Len(written) THEN written[i] ELSE Uninit]

\* Variants of wait used to test the properties below.
\* The buffer length is set to the capacity, not to the kernel's count.
Wait_LenIsCapacity(ok) ==
    \E batch \in IF ok THEN Batches(kernel, buffer.cap) ELSE {<< >>} :
       LET maxevents == buffer.cap
           num_events == IF ok THEN Len(batch) ELSE -1
       IN /\ effects' = <<KWait(maxevents, num_events)>>
          /\ IF num_events < 0
             THEN /\ ret' = Result("wait", -1, << >>, << >>, "OsError",
                                   << >>, << >>, datas)
                  /\ events' = << >>
                  /\ UNCHANGED buffer
             ELSE /\ buffer' = [buffer EXCEPT !.len = buffer.cap]
                  /\ events' = Slice(batch, buffer.cap)
                  /\ ret' = Result("wait", -1, << >>, << >>, "Ok", << >>,
                                   << >>, datas)
          /\ UNCHANGED <<datas, kernel, given>>

\* An interrupted wait is tried a second time.
Wait_RetryOnFailure(ok) ==
    \E batch \in Batches(kernel, buffer.cap) :
       LET maxevents == buffer.cap
           num_events == Len(batch)
       IN /\ effects' = IF ok THEN <<KWait(maxevents, num_events)>>
                        ELSE <<KWait(maxevents, -1),
                               KWait(maxevents, num_events)>>
          /\ buffer' = [buffer EXCEPT !.len = num_events]
          /\ events' = Slice(batch, num_events)
          /\ ret' = Result("wait", -1, << >>, << >>, "Ok", << >>, << >>,
                           datas)
          /\ UNCHANGED <<datas, kernel, given>>

\* A failing epoll_wait returns -1 and writes no record.
Wait(ok) ==
    \E batch \in IF ok THEN Batches(kernel, buffer.cap) ELSE {<< >>} :
       LET maxevents == buffer.cap
           num_events == IF ok THEN Len(batch) ELSE -1
       IN /\ effects' = <<KWait(maxevents, num_events)>>
          /\ IF num_events < 0
             THEN /\ ret' = Result("wait", -1, << >>, << >>, "OsError",
                                   << >>, << >>, datas)
                  /\ events' = << >>
                  /\ UNCHANGED buffer
             ELSE /\ buffer' = [buffer EXCEPT !.len = num_events]
                  /\ events' = Slice(batch, num_events)
                  /\ ret' = Result("wait", -1, << >>, << >>, "Ok", << >>,
                                   << >>, datas)
          /\ UNCHANGED <<datas, kernel, given>>

\* ------------------------------------------------- EPoll::resize_buffer
\* resize_with sets the length, shrink_to_fit leaves a capacity that is at
\* least the length.
ResizeBuffer(max_events, cap) ==
    /\ cap >= max_events
    /\ buffer' = [cap |-> cap, len |-> max_events]
    /\ events' = << >>
    /\ ret' = Result("resize_buffer", -1, << >>, <<max_events>>, "Ok",
                     << >>, << >>, datas)
    /\ effects' = << >>
    /\ UNCHANGED <<datas, kernel, given>>

\* ---------------------------------------------------------------- Next
\* The interest flags a call leaves registered: the flags argument of a
\* successful add, mod_flags or mod_event; none after a successful del.
Registers ==
    registered' =
       IF ret'.res = "Ok" /\ ret'.op \in {"add", "mod_flags", "mod_event"}
       THEN Insert(registered, ret'.fd, ret'.flags[1])
       ELSE IF ret'.res = "Ok" /\ ret'.op = "del"
       THEN Remove(registered, ret'.fd)
       ELSE registered

\* Token kinds that own nothing (U32, U64, Fd): a call allocates and
\* releases nothing, and the monitor stays open.
Plain ==
    Registers /\ UNCHANGED <<heap, held, closed, handle, drain, server>>

Next ==
    \/ \E fd \in RawFds, f \in Flags, t \in Tokens, ok \in BOOLEAN :
          Add(fd, Event(f, t), ok) /\ Plain
    \/ \E fd \in RawFds, f \in Flags, ok \in BOOLEAN :
          ModFlags(fd, f, ok) /\ Plain
    \/ \E fd \in RawFds : GetDataMut(fd) /\ Plain
    \/ \E fd \in RawFds, f \in Flags, t \in Tokens, ok \in BOOLEAN :
          ModEvent(fd, Event(f, t), ok) /\ Plain
    \/ \E fd \in RawFds, ok \in BOOLEAN : Del(fd, ok) /\ Plain
    \/ \E ok \in BOOLEAN : Wait(ok) /\ Plain
    \/ \E m \in 1..MaxCap : \E c \in m..MaxCap :
          ResizeBuffer(m, c) /\ Plain

Spec == Init /\ [][Next]_vars

\* ------------------------------------------------- owning token kinds
\* Data<Ptr<T>> (lib.rs) and Data<DataBox<T>> (data_kind.rs): the token is
\* the address of a heap payload. A value of Tokens names one allocation;
\* an address is not handed out a second time. Data<T> has no destructor,
\* so a token that is dropped releases nothing.
Inc(f, p, n) == [f EXCEPT ![p] = @ + n]

\* The table entries whose token points at p.
Entries(p) == {fd \in DOMAIN datas : datas[fd] = p}

\* The batch records whose token points at p.
InBatch(p) == {i \in DOMAIN events : events[i].data = p}

\* Some owner can still release p: a handle of the caller, a table entry,
\* or a record of the live batch.
Reachable(p) == held[p] > 0 \/ Entries(p) # {} \/ InBatch(p) # {}

\* p was allocated, was never released, and nothing points at it any more.
Lost(p) == heap[p].alloc /\ heap[p].rel = 0 /\ ~Reachable(p)

\* The payload behind p may be read or written.
Live(p) == heap[p].alloc /\ heap[p].rel = 0

\* The next address the allocator hands out.
Fresh == {p \in Tokens : ~heap[p].alloc /\ \A q \in 1..(p - 1) : heap[q].alloc}

\* A libc::close call.
KClose(ok) ==
    [kind |-> "close", op |-> "CLOSE", fd |-> -1, flags |-> {},
     data |-> 0, ok |-> ok, n |-> IF ok THEN 0 ELSE -1]

\* Data::new_ptr / Data::new_box: Box::into_raw of a new allocation; the
\* caller owns the token.
NewPtr(p) ==
    /\ p \in Fresh
    /\ heap' = [heap EXCEPT ![p] = [alloc |-> TRUE, rel |-> 0, val |-> "a"]]
    /\ held' = Inc(held, p, 1)
    /\ ret' = Result("new_ptr", -1, << >>, << >>, "Ok", <<p>>, << >>, datas)
    /\ effects' = << >>
    /\ UNCHANGED <<datas, kernel, buffer, events, given, registered, closed>>

\* Variant of clone used to test the properties below: the pointer is
\* copied bit for bit.
Clone_SharesPointer(p) ==
    /\ held[p] > 0 \/ Entries(p) # {}
    /\ Live(p)
    /\ held[p] < MaxHeld
    /\ held' = Inc(held, p, 1)
    /\ ret' = Result("clone", -1, << >>, <<p>>, "Ok", <<p>>, << >>, datas)
    /\ effects' = << >>
    /\ UNCHANGED <<datas, kernel, buffer, events, given, registered, heap,
                   closed>>

\* Clone for Data<Ptr<T>> / Data<DataBox<T>>: a new allocation holding a
\* clone of the payload, reached through a token of the caller or through
\* get_datas.
Clone(p) ==
    /\ held[p] > 0 \/ Entries(p) # {}
    /\ Live(p)
    /\ \E q \in Fresh :
          /\ heap' = [heap EXCEPT ![q] = [alloc |-> TRUE, rel |-> 0,
                                          val |-> heap[p].val]]
          /\ held' = Inc(held, q, 1)
          /\ ret' = Result("clone", -1, << >>, <<p>>, "Ok", <<q>>, << >>,
                           datas)
    /\ effects' = << >>
    /\ UNCHANGED <<datas, kernel, buffer, events, given, registered, closed>>

\* Data::ptr_mut / as_mut: a write to the payload through a token of the
\* caller, through get_data_mut, or through Event::data_mut of the batch.
PtrMut(p, v) ==
    /\ Reachable(p)
    /\ Live(p)
    /\ v # heap[p].val
    /\ heap' = [heap EXCEPT ![p].val = v]
    /\ ret' = Result("ptr_mut", -1, << >>, <<p>>, "Ok", << >>, << >>, datas)
    /\ effects' = << >>
    /\ UNCHANGED <<datas, kernel, buffer, events, given, registered, held,
                   closed>>

\* Data::into_inner / Data::into_box: Box::from_raw of the token's address;
\* the box is dropped and the payload released.
IntoInner(p) ==
    /\ held[p] > 0
    /\ heap[p].rel < MaxRelease
    /\ held' = Inc(held, p, -1)
    /\ heap' = [heap EXCEPT ![p].rel = @ + 1]
    /\ ret' = Result("into_inner", -1, << >>, <<p>>, "Ok", << >>, << >>,
                     datas)
    /\ effects' = << >>
    /\ UNCHANGED <<datas, kernel, buffer, events, given, registered, closed>>

\* std::mem::replace(event.data_mut(), token) on record i of the batch: the
\* caller's token goes into the record and the record's token, a copy of
\* the pointer the kernel stores, comes out as an owned Data<T>.
Replace(i, p) ==
    /\ ~closed
    /\ i \in DOMAIN events
    /\ held[p] > 0
    /\ events[i].data # p
    /\ held[events[i].data] < MaxHeld
    /\ events' = [events EXCEPT ![i].data = p]
    /\ held' = Inc(Inc(held, p, -1), events[i].data, 1)
    /\ ret' = Result("replace", events[i].fd, << >>, <<p>>, "Ok",
                     <<events[i].data>>, << >>, datas)
    /\ effects' = << >>
    /\ UNCHANGED <<datas, kernel, buffer, given, registered, heap, closed>>

\* add with a token of the caller: the event is moved into the call; it
\* ends in the table or is dropped.
OwnAdd(fd, flags, p, ok) ==
    /\ ~closed
    /\ held[p] > 0
    /\ Add(fd, Event(flags, p), ok)
    /\ Registers
    /\ held' = Inc(held, p, -1)
    /\ UNCHANGED <<heap, closed>>

\* mod_event with a token of the caller: the event is moved into the call;
\* the token it replaces is handed to the caller.
OwnModEvent(fd, flags, p, ok) ==
    /\ ~closed
    /\ held[p] > 0
    /\ ModEvent(fd, Event(flags, p), ok)
    /\ Registers
    /\ \A i \in DOMAIN ret'.old : held[ret'.old[i]] < MaxHeld
    /\ held' = IF ret'.old = << >> THEN Inc(held, p, -1)
               ELSE Inc(Inc(held, p, -1), ret'.old[1], 1)
    /\ UNCHANGED <<heap, closed>>

\* del: the stored token is handed to the caller.
OwnDel(fd, ok) ==
    /\ ~closed
    /\ Del(fd, ok)
    /\ Registers
    /\ \A i \in DOMAIN ret'.old : held[ret'.old[i]] < MaxHeld
    /\ held' = IF ret'.old = << >> THEN held ELSE Inc(held, ret'.old[1], 1)
    /\ UNCHANGED <<heap, closed>>

OwnWait(ok) ==
    /\ ~closed
    /\ Wait(ok)
    /\ UNCHANGED <<registered, heap, held, closed>>

\* libc::close(epoll fd) and the move of api.datas out of the monitor. What
\* a failed close(2) leaves of the descriptor is unspecified.
Closing(op, ok) ==
    /\ ~closed
    /\ closed' = TRUE
    /\ kernel' \in IF ok THEN {<< >>} ELSE {kernel, << >>}
    /\ effects' = <<KClose(ok)>>
    /\ ret' = Result(op, -1, << >>, << >>, IF ok THEN "Ok" ELSE "OsError",
                     IF op = "close" THEN <<datas>> ELSE << >>, << >>, datas)
    /\ datas' = << >>
    /\ events' = << >>
    /\ given' = << >>
    /\ registered' = << >>
    /\ UNCHANGED buffer

\* Variant of close used to test the properties below: the tokens are
\* released instead of returned when the kernel close failed.
Close_ReleasesOnFailure(ok) ==
    /\ \A p \in Tokens : held[p] + Cardinality(Entries(p)) <= MaxHeld
    /\ \A p \in Tokens : heap[p].rel + Cardinality(Entries(p)) <= MaxRelease
    /\ Closing("close", ok)
    /\ IF ok
       THEN /\ held' = [p \in Tokens |-> held[p] + Cardinality(Entries(p))]
            /\ UNCHANGED heap
       ELSE /\ heap' = [p \in Tokens |->
                          [heap[p] EXCEPT !.rel = @ + Cardinality(Entries(p))]]
            /\ UNCHANGED held

\* EPoll::close: every token of the table goes to the caller.
Close(ok) ==
    /\ \A p \in Tokens : held[p] + Cardinality(Entries(p)) <= MaxHeld
    /\ Closing("close", ok)
    /\ held' = [p \in Tokens |-> held[p] + Cardinality(Entries(p))]
    /\ UNCHANGED heap

\* Variant of drop used to test the properties below: the tokens are
\* released only when the kernel close succeeded.
Drop_SkipsOnCloseFailure(ok) ==
    /\ \A p \in Tokens : heap[p].rel + Cardinality(Entries(p)) <= MaxRelease
    /\ Closing("drop", ok)
    /\ heap' = [p \in Tokens |->
                  [heap[p] EXCEPT !.rel = IF ok THEN @ + Cardinality(Entries(p))
                                         ELSE @]]
    /\ UNCHANGED held

\* EPoll<Ptr<T>>::drop: close, then into_inner on every token of the table.
Drop(ok) ==
    /\ \A p \in Tokens : heap[p].rel + Cardinality(Entries(p)) <= MaxRelease
    /\ Closing("drop", ok)
    /\ heap' = [p \in Tokens |->
                  [heap[p] EXCEPT !.rel = @ + Cardinality(Entries(p))]]
    /\ UNCHANGED held

\* A call on the monitor or on a token leaves the kernel handle's flags
\* and the drain utility alone.
MonitorOnly == UNCHANGED <<handle, drain, server>>

\* The life of owning tokens in a monitor: allocation, registration, the
\* batch, release, close and teardown. Every registration asks for
\* readability; the payload is not written.
NextOwn ==
    \/ \E p \in Tokens : NewPtr(p) /\ MonitorOnly
    \/ \E p \in Tokens : IntoInner(p) /\ MonitorOnly
    \/ \E i \in 1..MaxCap, p \in Tokens : Replace(i, p) /\ MonitorOnly
    \/ \E fd \in RawFds, p \in Tokens, ok \in BOOLEAN :
          OwnAdd(fd, {"EPOLLIN"}, p, ok) /\ MonitorOnly
    \/ \E fd \in RawFds, p \in Tokens, ok \in BOOLEAN :
          OwnModEvent(fd, {"EPOLLIN"}, p, ok) /\ MonitorOnly
    \/ \E fd \in RawFds, ok \in BOOLEAN : OwnDel(fd, ok) /\ MonitorOnly
    \/ \E ok \in BOOLEAN : OwnWait(ok) /\ MonitorOnly
    \/ \E ok \in BOOLEAN : Close(ok) /\ MonitorOnly
    \/ \E ok \in BOOLEAN : Drop(ok) /\ MonitorOnly

SpecOwn == Init /\ [][NextOwn]_vars

\* Owning tokens and their clones: allocation, clone, payload writes and
\* release, for tokens of the caller and tokens stored in the table.
NextClone ==
    \/ \E p \in Tokens : NewPtr(p) /\ MonitorOnly
    \/ \E p \in Tokens : Clone(p) /\ MonitorOnly
    \/ \E p \in Tokens, v \in Values : PtrMut(p, v) /\ MonitorOnly
    \/ \E p \in Tokens : IntoInner(p) /\ MonitorOnly
    \/ \E fd \in RawFds, p \in Tokens, ok \in BOOLEAN :
          OwnAdd(fd, {"EPOLLIN"}, p, ok) /\ MonitorOnly
    \/ \E fd \in RawFds, ok \in BOOLEAN : OwnDel(fd, ok) /\ MonitorOnly

SpecClone == Init /\ [][NextClone]_vars

\* ------------------------------------------------------ bounded values
\* MaxEvents (max_events.rs), TimeOut (timeout.rs), ReadSize (read_size.rs).
\* TLC's integers are 32 bits wide, so the two machine types are
\* scaled down with their order kept: c_int is 16 bits and usize 30 bits
\* here; 1 <= 64 <= 4096 <= c_int::MAX < usize::MAX as in the program.
CIntMax == 32767
CIntMin == -32768
UsizeMax == 1073741823

\* The integers within Spread of x in the type lo..hi.
Near(x, lo, hi) ==
    (IF x - lo < Spread THEN lo ELSE x - Spread) ..
    (IF hi - x < Spread THEN hi ELSE x + Spread)

\* Arguments of type usize and of type c_int: around every limit and
\* default the three types compare with, and at both ends of the type.
UsizeInputs ==
    Near(0, 0, UsizeMax) \cup Near(64, 0, UsizeMax)
       \cup Near(4096, 0, UsizeMax) \cup Near(CIntMax, 0, UsizeMax)
       \cup Near(UsizeMax, 0, UsizeMax)

CIntInputs ==
    Near(CIntMin, CIntMin, CIntMax) \cup Near(-1, CIntMin, CIntMax)
       \cup Near(CIntMax, CIntMin, CIntMax)

\* Result<Self, n>
Ok(v) == [tag |-> "Ok", v |-> v]
Err(n) == [tag |-> "Err", v |-> n]

MaxEventsMIN == [inner |-> 1]
MaxEventsMAX == [inner |-> CIntMax]
MaxEventsDEFAULT == [inner |-> 64]

\* Variant of in_range used to test the properties below: the upper limit
\* is excluded.
MaxEventsInRange_Exclusive(n) ==
    MaxEventsMIN.inner <= n /\ n < MaxEventsMAX.inner

MaxEventsInRange(n) == MaxEventsMIN.inner <= n /\ n <= MaxEventsMAX.inner

MaxEventsNewUnchecked(inner) == [inner |-> inner]

MaxEventsNew(n) ==
    IF MaxEventsInRange(n) THEN Ok(MaxEventsNewUnchecked(n)) ELSE Err(n)

MaxEventsDefault == MaxEventsDEFAULT

\* Variant of from used to test the properties below: nothing is done
\* about an argument above the range.
MaxEventsFrom_NoUpperClamp(n) ==
    IF n < MaxEventsMIN.inner THEN MaxEventsDefault
    ELSE MaxEventsNewUnchecked(n)

MaxEventsFrom(n) ==
    IF n < MaxEventsMIN.inner THEN MaxEventsDefault
    ELSE IF n > MaxEventsMAX.inner THEN MaxEventsMAX
    ELSE MaxEventsNewUnchecked(n)

TimeOutINFINITE == [inner |-> -1]
TimeOutINSTANT == [inner |-> 0]
TimeOutMAX == [inner |-> CIntMax]
TimeOutDEFAULT == TimeOutINFINITE

TimeOutInRange(n) == TimeOutINFINITE.inner <= n /\ n <= TimeOutMAX.inner

TimeOutNewUnchecked(inner) == [inner |-> inner]

TimeOutNew(n) ==
    IF TimeOutInRange(n) THEN Ok(TimeOutNewUnchecked(n)) ELSE Err(n)

TimeOutDefault == TimeOutDEFAULT

TimeOutFrom(n) ==
    IF n < TimeOutINFINITE.inner THEN TimeOutINFINITE
    ELSE TimeOutNewUnchecked(n)

ReadSizeMIN == [inner |-> 1]
ReadSizeMAX == [inner |-> UsizeMax]
ReadSizeDEFAULT == [inner |-> 4096]

ReadSizeInRange(n) == ReadSizeMIN.inner <= n /\ n <= ReadSizeMAX.inner

ReadSizeNewUnchecked(inner) == [inner |-> inner]

ReadSizeNew(n) ==
    IF ReadSizeInRange(n) THEN Ok(ReadSizeNewUnchecked(n)) ELSE Err(n)

ReadSizeDefault == ReadSizeDEFAULT

ReadSizeFrom(n) ==
    IF n < ReadSizeMIN.inner THEN ReadSizeDefault
    ELSE IF n > ReadSizeMAX.inner THEN ReadSizeMAX
    ELSE ReadSizeNewUnchecked(n)

\* Into<usize> / Into<c_int>
Into(v) == v.inner

\* The path of an item of a type: MaxEvents::new.
Name(ty, item) == ty \o "::" \o item

\* A constructor or constant was evaluated: ret holds its name, its
\* argument, and the value it gave.
Evaluated(op, arg, tag, v) ==
    /\ ret' = Result(op, -1, << >>, arg, tag, <<v>>, << >>, << >>)
    /\ UNCHANGED <<datas, kernel, buffer, events, effects, given, registered,
                   heap, held, closed, handle, drain, server>>

NewCall(ty, n) ==
    LET r == CASE ty = "MaxEvents" -> MaxEventsNew(n)
               [] ty = "TimeOut" -> TimeOutNew(n)
               [] ty = "ReadSize" -> ReadSizeNew(n)
    IN Evaluated(Name(ty, "new"), <<n>>, r.tag, r.v)

FromCall(ty, n) ==
    LET v == CASE ty = "MaxEvents" -> MaxEventsFrom(n)
               [] ty = "TimeOut" -> TimeOutFrom(n)
               [] ty = "ReadSize" -> ReadSizeFrom(n)
    IN Evaluated(Name(ty, "from"), <<n>>, "Value", v)

DefaultCall(ty) ==
    LET v == CASE ty = "MaxEvents" -> MaxEventsDefault
               [] ty = "TimeOut" -> TimeOutDefault
               [] ty = "ReadSize" -> ReadSizeDefault
    IN Evaluated(Name(ty, "default"), << >>, "Value", v)

\* The named constants of the three types.
NamedConstants ==
    {<<"MaxEvents", "MIN", MaxEventsMIN>>, <<"MaxEvents", "MAX", MaxEventsMAX>>,
     <<"MaxEvents", "DEFAULT", MaxEventsDEFAULT>>,
     <<"TimeOut", "INFINITE", TimeOutINFINITE>>,
     <<"TimeOut", "INSTANT", TimeOutINSTANT>>,
     <<"TimeOut", "MAX", TimeOutMAX>>,
     <<"TimeOut", "DEFAULT", TimeOutDEFAULT>>,
     <<"ReadSize", "MIN", ReadSizeMIN>>, <<"ReadSize", "MAX", ReadSizeMAX>>,
     <<"ReadSize", "DEFAULT", ReadSizeDEFAULT>>}

ConstantRead(c) == Evaluated(Name(c[1], c[2]), << >>, "Value", c[3])

\* The argument type of each bounded type, and its range.
Inputs(ty) == IF ty = "TimeOut" THEN CIntInputs ELSE UsizeInputs

BoundedTypes == {"MaxEvents", "TimeOut", "ReadSize"}

MIN(ty) ==
    CASE ty = "MaxEvents" -> MaxEventsMIN
      [] ty = "TimeOut" -> TimeOutINFINITE
      [] ty = "ReadSize" -> ReadSizeMIN

MAX(ty) ==
    CASE ty = "MaxEvents" -> MaxEventsMAX
      [] ty = "TimeOut" -> TimeOutMAX
      [] ty = "ReadSize" -> ReadSizeMAX

NextBounded ==
    \/ \E ty \in BoundedTypes : \E n \in Inputs(ty) : NewCall(ty, n)
    \/ \E ty \in BoundedTypes : \E n \in Inputs(ty) : FromCall(ty, n)
    \/ \E ty \in BoundedTypes : DefaultCall(ty)
    \/ \E c \in NamedConstants : ConstantRead(c)

SpecBounded == Init /\ [][NextBounded]_vars

\* ------------------------------------------------ read_until_wouldblock
\* The three read_until_wouldblock of the sources: utils/mod.rs, utils.rs
\* and the inline module utils of lib.rs.
Versions == {"utils/mod.rs", "utils.rs", "lib.rs"}

\* Kinds of io::Error a read fails with.
ErrorKinds == {"WouldBlock", "Interrupted", "ConnectionReset"}

\* Bytes.  The bytes output holds before the call are -1, -2, ...; the
\* bytes of the stream are 1, 2, ... in the order the reader delivers them;
\* Garbage is what is read back from a place a byte was written to outside
\* the allocation when the byte did not survive.
Garbage == 0
Old(len) == [i \in 1..len |-> 0 - i]

Max(a, b) == IF a >= b THEN a ELSE b

\* The reader delivers at most MaxStream bytes in a call, so no read
\* returns more.
Min(a, b) == IF a <= b THEN a ELSE b

\* usize subtraction in a build without overflow checks.
WrappingSub(a, b) == IF a >= b THEN a - b ELSE UsizeMax + 1 + a - b

\* let available = ...: the whole capacity in utils/mod.rs, the spare
\* capacity in utils.rs and lib.rs.
Available(d) ==
    IF d.version = "utils/mod.rs" THEN d.cap ELSE WrappingSub(d.cap, d.len)

\* Variant of the test before reserve used to test the properties below:
\* reserve is called in every iteration.
NeedsReserve_Always(d) == TRUE

\* if available < read_size
NeedsReserve(d) == Available(d) < d.read_size

\* Vec::reserve(additional): nothing when the spare capacity holds
\* additional elements, else a capacity of at least len + additional; the
\* allocation may be larger (amortized doubling).
Reserved(d, additional) ==
    IF additional > WrappingSub(d.cap, d.len)
    THEN {d.len + additional, Max(d.len + additional, 2 * d.cap)}
    ELSE {d.cap}

\* The three outcomes, as each version returns them.
StateEndOfFile(d) ==
    CASE d.version = "utils/mod.rs" ->
            [tag |-> "EndOfFile", v |-> d.total, kind |-> "none"]
      [] d.version = "utils.rs" ->
            [tag |-> "EOF", v |-> d.total, kind |-> "none"]
      [] d.version = "lib.rs" ->
            [tag |-> "Err", v |-> 0, kind |-> "ConnectionAborted"]

StateWouldBlock(d) ==
    IF d.version = "lib.rs"
    THEN [tag |-> "Ok", v |-> 0, kind |-> "none"]
    ELSE [tag |-> "WouldBlock", v |-> d.total, kind |-> "none"]

StateError(d, kind) ==
    IF d.version = "lib.rs"
    THEN [tag |-> "Err", v |-> 0, kind |-> kind]
    ELSE [tag |-> "Error", v |-> 0, kind |-> kind]

\* Variant of the Ok arm used to test the properties below: a read of
\* zero bytes is followed by another iteration.
AfterZero_Retry(d) == "loop"

\* Where the loop goes after a read of zero bytes: break.
AfterZero(d) == "done"

\* Variant of the Ok arm used to test the properties below: a read that
\* fills the whole chunk is taken for the last one.
AfterData_StopOnFullChunk(d, octet_read) ==
    IF octet_read = d.read_size THEN "done" ELSE "loop"

\* Where the loop goes after a read of octet_read > 0 bytes.
AfterData(d, octet_read) == "loop"

DrainOnly ==
    UNCHANGED <<datas, kernel, buffer, events, ret, effects, given,
                registered, heap, held, closed, handle, server>>

\* read_until_wouldblock(reader, output, read_size) is called with an
\* output of length len and capacity len + spare.
ReadUntilWouldblock(version, len, spare, n) ==
    /\ drain.pc \in {"idle", "done", "panicked"}
    /\ drain' = [NoDrain EXCEPT
                    !.pc = "loop",
                    !.version = version,
                    !.requested = n,
                    !.read_size = IF version = "utils/mod.rs"
                                  THEN Into(ReadSizeFrom(n)) ELSE n,
                    !.len = len, !.cap = len + spare,
                    !.len0 = len, !.cap0 = len + spare,
                    !.output = Old(len)]
    /\ DrainOnly

\* The head of one iteration, up to the slice handed to the reader.
\* In utils.rs and lib.rs capacity - len overflows once len is above the
\* capacity: the subtraction panics in a build with overflow checks and
\* wraps in one without.
Reserve ==
    /\ drain.pc = "loop"
    /\ \/ /\ drain.version # "utils/mod.rs"
          /\ drain.len > drain.cap
          /\ drain' = [drain EXCEPT !.pc = "panicked"]
       \/ \E cap \in IF NeedsReserve(drain)
                     THEN Reserved(drain, drain.read_size - Available(drain))
                     ELSE {drain.cap} :
             drain' = [drain EXCEPT !.pc = "read",
                                    !.cap = cap,
                                    !.reserved = NeedsReserve(drain)]
    /\ DrainOnly

\* reader.read(buffer) and the match on its result.  A byte written
\* above the capacity lies outside the allocation: it is read back as it
\* was written, or not.
Read(octet_read, kind, kept) ==
    /\ drain.pc = "read"
    /\ \/ /\ kind = "none"
          /\ octet_read = 0
          /\ kept
          /\ drain' = [drain EXCEPT !.pc = AfterZero(drain),
                                    !.reads = @ + 1,
                                    !.last = "zero",
                                    !.result = StateEndOfFile(drain)]
       \/ /\ kind = "none"
          /\ octet_read > 0
          /\ drain.delivered + octet_read <= MaxStream
          /\ kept \/ drain.len + octet_read > drain.cap
          /\ drain' =
                [drain EXCEPT
                    !.pc = AfterData(drain, octet_read),
                    !.reads = @ + 1,
                    !.last = "data",
                    !.delivered = @ + octet_read,
                    !.total = IF drain.version = "lib.rs"
                              THEN @ ELSE @ + octet_read,
                    !.output = @ \o [i \in 1..octet_read |->
                                       IF drain.len + i > drain.cap /\ ~kept
                                       THEN Garbage
                                       ELSE drain.delivered + i],
                    !.len = @ + octet_read]
       \/ /\ kind # "none"
          /\ octet_read = 0
          /\ kept
          /\ drain' = [drain EXCEPT
                          !.pc = "done", !.reads = @ + 1,
                          !.last = kind,
                          !.result = IF kind = "WouldBlock"
                                     THEN StateWouldBlock(drain)
                                     ELSE StateError(drain, kind)]
    /\ DrainOnly

NextDrain ==
    \/ \E version \in Versions, len \in 0..MaxLen, spare \in 0..MaxSpare,
          n \in 0..MaxRead : ReadUntilWouldblock(version, len, spare, n)
    \/ Reserve
    \/ \E octet_read \in 0..Min(drain.read_size, MaxStream),
          kind \in ErrorKinds \cup {"none"}, kept \in BOOLEAN :
          Read(octet_read, kind, kept)

SpecDrain == Init /\ [][NextDrain]_vars

\* The reader is called again and again while the loop runs.
SpecDrainFair ==
    /\ SpecDrain
    /\ WF_vars(Reserve)
    /\ WF_vars(\E octet_read \in 0..Min(drain.read_size, MaxStream),
                  kind \in ErrorKinds \cup {"none"}, kept \in BOOLEAN :
                  Read(octet_read, kind, kept))

\* ------------------------------------------------------------ EPoll::new
\* epoll::create(close_exec): the flags handed to epoll_create1.
CreateFlags_Always(close_exec) == {"EPOLL_CLOEXEC"}

CreateFlags(close_exec) == IF close_exec THEN {"EPOLL_CLOEXEC"} ELSE {}

\* The kernel call that creates the monitor, in the effect list.
KCreate(flags, ok) ==
    [kind |-> "create", op |-> "EPOLL_CREATE1", fd |-> -1, flags |-> flags,
     data |-> 0, ok |-> ok, n |-> IF ok THEN 0 ELSE -1]

\* epoll_create1(2): the handle it returns has FD_CLOEXEC set exactly when
\* EPOLL_CLOEXEC is among the flags.
EpollCreate1(flags) == "EPOLL_CLOEXEC" \in flags

\* Variant of Vec::with_capacity used to test the properties below: any
\* capacity, the argument notwithstanding.
WithCapacity_Any(n) == 0..MaxBound

\* Vec::with_capacity(n): the capacities the vector may have.
WithCapacity(n) == n..MaxBound

\* The values of MaxEvents taken as max_events arguments.
Bounds == {n \in 0..MaxBound : MaxEventsInRange(n)}

\* EPoll::new(close_exec, max_events).  When epoll::create fails the error
\* is returned and no monitor is made; else the new monitor takes the place
\* of the one the model follows.
New(close_exec, max_events, cap, ok) ==
    /\ cap \in WithCapacity(Into(max_events))
    /\ effects' = <<KCreate(CreateFlags(close_exec), ok)>>
    /\ IF ok
       THEN /\ handle' = [cloexec |-> EpollCreate1(CreateFlags(close_exec)),
                          max_events |-> Into(max_events)]
            /\ datas' = << >>
            /\ kernel' = << >>
            /\ buffer' = [cap |-> cap, len |-> 0]
            /\ events' = << >>
            /\ given' = << >>
            /\ registered' = << >>
            /\ closed' = FALSE
            /\ ret' = Result("new", -1, << >>,
                             <<close_exec, Into(max_events)>>, "Ok", << >>,
                             << >>, datas)
       ELSE /\ ret' = Result("new", -1, << >>,
                             <<close_exec, Into(max_events)>>, "OsError",
                             << >>, << >>, datas)
            /\ UNCHANGED <<handle, datas, kernel, buffer, events, given,
                           registered, closed>>
    /\ UNCHANGED <<heap, held, drain, server>>

\* resize_buffer(max_events) makes max_events the bound in force.
Resized(max_events) ==
    /\ handle' = [handle EXCEPT !.max_events = max_events]
    /\ Registers
    /\ UNCHANGED <<heap, held, closed, drain, server>>

\* Monitors are made, resized and waited on; one descriptor at most is
\* registered with the monitor.
NextNew ==
    \/ \E close_exec \in BOOLEAN, m \in Bounds, cap \in 0..MaxBound,
          ok \in BOOLEAN : New(close_exec, MaxEventsNewUnchecked(m), cap, ok)
    \/ \E m \in Bounds : \E cap \in m..MaxBound :
          ResizeBuffer(m, cap) /\ Resized(m)
    \/ \E ok \in BOOLEAN : Wait(ok) /\ Plain
    \/ \E fd \in RawFds, t \in Tokens, ok \in BOOLEAN :
          datas = << >> /\ Add(fd, Event({"EPOLLIN"}, t), ok) /\ Plain

SpecNew == Init /\ [][NextNew]_vars

\* ------------------------------------- writes through a &mut Data<T>
\* *api.get_data_mut(fd).unwrap() = data: the reference get_data_mut (and
\* add) returns points into the table, and a Data<T> can be assigned
\* through it.  No kernel call is made.
Assign(fd, data) ==
    /\ fd \in DOMAIN GetDatas
    /\ datas' = Insert(datas, fd, data)
    /\ ret' = Result("get_data_mut", fd, << >>, <<data>>, "Ok",
                     <<datas[fd]>>, <<fd>>, datas)
    /\ effects' = <<Table("assign", fd)>>
    /\ UNCHANGED <<kernel, buffer, events, given>>

\* add, mod_flags, mod_event, get_data_mut with and without an assignment,
\* and wait, for one set of interest flags.
NextAssign ==
    \/ \E fd \in RawFds, t \in Tokens, ok \in BOOLEAN :
          Add(fd, Event({"EPOLLIN"}, t), ok) /\ Plain
    \/ \E fd \in RawFds, ok \in BOOLEAN :
          ModFlags(fd, {"EPOLLIN"}, ok) /\ Plain
    \/ \E fd \in RawFds, t \in Tokens, ok \in BOOLEAN :
          ModEvent(fd, Event({"EPOLLIN"}, t), ok) /\ Plain
    \/ \E fd \in RawFds : GetDataMut(fd) /\ Plain
    \/ \E fd \in RawFds, t \in Tokens : Assign(fd, t) /\ Plain
    \/ \E ok \in BOOLEAN : Wait(ok) /\ Plain

SpecAssign == Init /\ [][NextAssign]_vars

\* --------------------------------------------------- examples/server.rs
\* The echo server.  A client is its stream's descriptor, the flags field
\* and the number of bytes in its buffer; what read_until_wouldblock does
\* to the buffer is taken by its outcome and the number of bytes it
\* appended.  EPOLLET is set on every registration and never changed, and
\* is left out of the flags.
ServerFlags == {"EPOLLIN"}

\* Data::new_box(kind): the token of the descriptor's record.
BoxOf(fd) == IF fd \in Tokens THEN fd ELSE MaxToken

\* flags ^ Flags::EPOLLOUT
Xor(flags, bit) == (flags \ {bit}) \cup ({bit} \ flags)

\* Variant of the flags asked for when a write would block, used to test
\* the properties below: write interest is not added.
WithOut_Same(flags) == flags

\* self.flags | Flags::EPOLLOUT
WithOut(flags) == flags \cup {"EPOLLOUT"}

\* Variant of the update of the flags field used to test the properties
\* below: the field is written whatever mod_flags returned.
FlagsAfter_Always(flags, new, success) == new

\* api.mod_flags(fd, flags)?; self.flags = flags;
FlagsAfter(flags, new, success) == IF success THEN new ELSE flags

\* What the calls of self.stream.write in one write_buffer come to: w
\* bytes are taken, and then the buffer is empty, or a write would block,
\* or a write fails.
Writes(c) ==
    {<<c.buffer, "emptied">>} \cup
    ((0..(c.buffer - 1)) \X {"WouldBlock", "Error"})

\* Client::write_buffer of client c with descriptor fd, the interest list
\* being k: the client, the interest list and the result after it.
WriteBuffer(c, fd, k, w, end, ok) ==
    LET left == [c EXCEPT !.buffer = @ - w]
        toggles == IF end = "WouldBlock" THEN "EPOLLOUT" \notin c.flags
                   ELSE "EPOLLOUT" \in c.flags
        flags == IF end = "WouldBlock" THEN WithOut(c.flags)
                 ELSE Xor(c.flags, "EPOLLOUT")
        found == fd \in DOMAIN datas
        success == found /\ CtlOk(k, "EPOLL_CTL_MOD", fd, ok)
    IN IF end = "Error"
       THEN [client |-> left, kernel |-> k, res |-> "Err"]
       ELSE IF ~toggles
       THEN [client |-> left, kernel |-> k, res |-> "Ok"]
       ELSE [client |-> [left EXCEPT
                           !.flags = FlagsAfter(c.flags, flags, success)],
             kernel |-> IF found
                        THEN EpollCtl(k, "EPOLL_CTL_MOD", fd,
                                      Event(flags, datas[fd]), ok)
                        ELSE k,
             res |-> IF success THEN "Ok" ELSE "Err"]

\* One step of main: the server, the interest list and the table after it.
ServerStep(s, k, d, op, fd, res) ==
    /\ server' = s
    /\ kernel' = k
    /\ datas' = d
    /\ given' = [f \in DOMAIN d |-> d[f]]
    /\ registered' = [f \in DOMAIN k |-> k[f].flags]
    /\ ret' = Result(op, fd, << >>, << >>, res, << >>, << >>, datas)
    /\ effects' = << >>
    /\ UNCHANGED <<heap, held, closed, handle, drain>>

NoCall == [fd |-> 0, res |-> "none"]

\* The next event of the batch, or the deletion queue after the last.
Advance(s) ==
    IF s.i < Len(events)
    THEN [s EXCEPT !.pc = "read", !.i = @ + 1]
    ELSE [s EXCEPT !.pc = "delete", !.i = 0]

\* main up to the loop: the listener is registered.
Main(fd, ok) ==
    /\ server.pc = "idle"
    /\ fd \notin DOMAIN datas
    /\ LET ev == Event(ServerFlags, BoxOf(fd))
           success == CtlOk(kernel, "EPOLL_CTL_ADD", fd, ok)
       IN IF success
          THEN ServerStep([NoServer EXCEPT !.pc = "wait", !.listener = fd],
                          EpollCtl(kernel, "EPOLL_CTL_ADD", fd, ev, ok),
                          Insert(datas, fd, ev.data), "add", fd, "Ok")
          ELSE ServerStep([NoServer EXCEPT !.pc = "panicked"], kernel, datas,
                          "add", fd, "OsError")
    /\ UNCHANGED <<buffer, events>>

\* epoll.wait(TimeOut::INFINITE).unwrap(): a batch of one event at least.
ServerWait(ok) ==
    /\ server.pc = "wait"
    /\ \E batch \in IF ok THEN Batches(kernel, buffer.cap) \ {<< >>}
                    ELSE {<< >>} :
          IF ok
          THEN /\ events' = Slice(batch, Len(batch))
               /\ buffer' = [buffer EXCEPT !.len = Len(batch)]
               /\ ServerStep([server EXCEPT !.pc = "read", !.i = 1,
                                            !.wb = NoCall],
                             kernel, datas, "wait", -1, "Ok")
          ELSE /\ UNCHANGED <<buffer, events>>
               /\ ServerStep([server EXCEPT !.pc = "panicked"], kernel,
                             datas, "wait", -1, "OsError")

\* Kind::Server: the accept loop.  The accepted streams have descriptors
\* that are not open yet; each is registered; the loop ends when accept
\* would block, or fails, which queues the listener.
Listen(accepted, err, ok) ==
    /\ server.pc = "read"
    /\ events[server.i].fd = server.listener
    /\ accepted \cap DOMAIN datas = {}
    /\ LET e == events[server.i]
           added == [fd \in DOMAIN server.clients \cup accepted |->
                       IF fd \in accepted
                       THEN [flags |-> ServerFlags, buffer |-> 0]
                       ELSE server.clients[fd]]
       IN IF "EPOLLIN" \notin e.flags
          THEN /\ accepted = {} /\ err = "WouldBlock" /\ ok
               /\ ServerStep(Advance([server EXCEPT !.wb = NoCall]), kernel,
                             datas, "listen", e.fd, "Ok")
          ELSE IF ~ok
          THEN /\ accepted # {}
               /\ ServerStep([server EXCEPT !.pc = "panicked"], kernel,
                             datas, "add", e.fd, "OsError")
          ELSE ServerStep(
                  Advance([server EXCEPT
                             !.wb = NoCall,
                             !.clients = added,
                             !.dels = IF err = "WouldBlock" THEN @
                                      ELSE Append(@, e.fd)]),
                  [fd \in DOMAIN kernel \cup accepted |->
                      IF fd \in accepted
                      THEN Event(ServerFlags, BoxOf(fd)) ELSE kernel[fd]],
                  [fd \in DOMAIN datas \cup accepted |->
                      IF fd \in accepted THEN BoxOf(fd) ELSE datas[fd]],
                  "listen", e.fd, "Ok")
    /\ UNCHANGED <<buffer, events>>

\* Kind::Client, `if flags.contains(Flags::EPOLLIN)`: read_until_wouldblock
\* appends n bytes and ends with state; write_buffer is called after
\* WouldBlock and EndOfFile; the descriptor is queued after EndOfFile,
\* Error, and a failed write_buffer.
ReadBranch(n, state, wr, ok) ==
    /\ server.pc = "read"
    /\ events[server.i].fd \in DOMAIN server.clients
    /\ server.clients[events[server.i].fd].buffer + n <= MaxPending
    /\ LET e == events[server.i]
           fd == e.fd
           c == [server.clients[fd] EXCEPT !.buffer = @ + n]
           r == WriteBuffer(c, fd, kernel, wr[1], wr[2], ok)
       IN IF "EPOLLIN" \notin e.flags
          THEN /\ n = 0 /\ state = "WouldBlock" /\ ok
               /\ wr = <<c.buffer, "emptied">>
               /\ ServerStep([server EXCEPT !.pc = "write", !.wb = NoCall],
                             kernel, datas, "read", fd, "Ok")
          ELSE IF state = "Error"
          THEN /\ ok /\ wr = <<c.buffer, "emptied">>
               /\ ServerStep([server EXCEPT !.pc = "write", !.wb = NoCall,
                                            !.clients[fd] = c,
                                            !.dels = Append(@, fd)],
                             kernel, datas, "read", fd, "Ok")
          ELSE /\ wr \in Writes(c)
               /\ ServerStep(
                     [server EXCEPT
                         !.pc = "write",
                         !.wb = [fd |-> fd, res |-> r.res],
                         !.clients[fd] = r.client,
                         !.dels = IF state = "EndOfFile" \/ r.res = "Err"
                                  THEN Append(@, fd) ELSE @],
                     r.kernel, datas, "read", fd, "Ok")
    /\ UNCHANGED <<buffer, events>>

\* Kind::Client, `if flags.contains(Flags::EPOLLOUT)`: write_buffer, and
\* the descriptor is queued when it fails.
WriteBranch(wr, ok) ==
    /\ server.pc = "write"
    /\ LET e == events[server.i]
           fd == e.fd
           c == server.clients[fd]
           r == WriteBuffer(c, fd, kernel, wr[1], wr[2], ok)
       IN IF "EPOLLOUT" \notin e.flags
          THEN /\ ok /\ wr = <<c.buffer, "emptied">>
               /\ ServerStep(Advance([server EXCEPT !.wb = NoCall]), kernel,
                             datas, "write", fd, "Ok")
          ELSE /\ wr \in Writes(c)
               /\ ServerStep(
                     Advance([server EXCEPT
                                !.wb = [fd |-> fd, res |-> r.res],
                                !.clients[fd] = r.client,
                                !.dels = IF r.res = "Err"
                                         THEN Append(@, fd) ELSE @]),
                     r.kernel, datas, "write", fd, "Ok")
    /\ UNCHANGED <<buffer, events>>

\* while let Some(x) = dels.pop_front(): epoll.del(x).unwrap(); the loop
\* of main is left when x is the listener.
Delete(ok) ==
    /\ server.pc = "delete"
    /\ IF server.dels = << >>
       THEN /\ ok
            /\ ServerStep([server EXCEPT !.pc = "wait", !.wb = NoCall],
                          kernel, datas, "del", -1, "Ok")
       ELSE LET x == Head(server.dels)
                s == [server EXCEPT !.dels = Tail(@), !.wb = NoCall]
            IN IF x \notin DOMAIN datas
               THEN /\ ok
                    /\ ServerStep([s EXCEPT !.pc = "panicked"], kernel,
                                  datas, "del", x, "NotFound")
               ELSE IF ~CtlOk(kernel, "EPOLL_CTL_DEL", x, ok)
               THEN ServerStep([s EXCEPT !.pc = "panicked"], kernel, datas,
                               "del", x, "OsError")
               ELSE ServerStep(
                       IF x = server.listener
                       THEN [s EXCEPT !.pc = "stopped"]
                       ELSE [s EXCEPT !.clients = Remove(@, x)],
                       Remove(kernel, x), Remove(datas, x), "del", x, "Ok")
    /\ UNCHANGED <<buffer, events>>

NextServer ==
    \/ \E fd \in RawFds, ok \in BOOLEAN : Main(fd, ok)
    \/ \E ok \in BOOLEAN : ServerWait(ok)
    \/ \E accepted \in SUBSET RawFds, err \in {"WouldBlock", "Other"},
          ok \in BOOLEAN : Listen(accepted, err, ok)
    \/ \E n \in 0..MaxPending,
          state \in {"WouldBlock", "EndOfFile", "Error"},
          wr \in (0..MaxPending) \X {"emptied", "WouldBlock", "Error"},
          ok \in BOOLEAN : ReadBranch(n, state, wr, ok)
    \/ \E wr \in (0..MaxPending) \X {"emptied", "WouldBlock", "Error"},
          ok \in BOOLEAN : WriteBranch(wr, ok)
    \/ \E ok \in BOOLEAN : Delete(ok)

SpecServer == Init /\ [][NextServer]_vars

TypeOK ==
    /\ DOMAIN datas \subseteq RawFds
    /\ \A fd \in DOMAIN datas : datas[fd] \in Tokens
    /\ buffer.cap \in 1..MaxCap
    /\ buffer.len \in 0..buffer.cap
    /\ DOMAIN registered \subseteq RawFds
    /\ \A p \in Tokens :
          /\ heap[p].alloc \in BOOLEAN
          /\ heap[p].rel \in 0..MaxRelease
          /\ heap[p].val \in Values
          /\ held[p] \in 0..MaxHeld
    /\ closed \in BOOLEAN

\* ------------------------------------------------------------ properties
\* Some kernel call in the effect list e was refused.
KernelFailed(e) == \E i \in DOMAIN e : e[i].kind = "ctl" /\ ~e[i].ok

\* The kernel control calls in the effect list e.
CtlCalls(e) == {i \in DOMAIN e : e[i].kind = "ctl"}

\* C1: after any sequence of add, mod_flags, mod_event, del, wait and
\* resize_buffer calls, whatever the kernel answered, the keys of the
\* registration table are exactly the descriptors in the kernel's interest
\* list.
C1_TableMirrorsKernel == DOMAIN datas = DOMAIN kernel

C1_Witness ==
    /\ ret.op = "del" /\ ret.res = "OsError"
    /\ DOMAIN datas = RawFds
    /\ DOMAIN kernel = RawFds
    /\ buffer.len > 0

\* C2: add(d, event) for an unregistered d whose kernel call fails returns
\* the OS error and leaves the table as it was.
C2_AddKernelFailure ==
    [][(ret'.op = "add" /\ ret'.fd \notin DOMAIN datas
          /\ KernelFailed(effects'))
       => (/\ ret'.res = "OsError"
           /\ ret'.ref = << >>
           /\ datas' = datas
           /\ ret'.fd \notin DOMAIN datas')]_vars

C2_Witness ==
    /\ ret.op = "add" /\ ret.res = "OsError"
    /\ KernelFailed(effects)
    /\ ret.fd \notin DOMAIN datas
    /\ datas # << >>

\* C3: add(d, _) while d is in the table fails with AlreadyExists, makes no
\* kernel call, and the table keeps the token d was registered with.
C3_AddTwice ==
    [][(ret'.op = "add" /\ ret'.fd \in DOMAIN datas)
       => (/\ ret'.res = "AlreadyExists"
           /\ effects' = << >>
           /\ kernel' = kernel
           /\ datas' = datas
           /\ datas'[ret'.fd] = given[ret'.fd])]_vars

C3_Witness ==
    /\ ret.op = "add" /\ ret.res = "AlreadyExists"
    /\ ret.fd \in DOMAIN datas
    /\ ret.data # <<datas[ret.fd]>>

\* C4: a successful add(d, event with token t) returns a reference to the
\* slot of d, that slot holds t, and a lookup of d right after it finds t.
C4_AddThenGet ==
    [][/\ (ret'.op = "add" /\ ret'.res = "Ok")
          => (/\ ret'.fd \notin DOMAIN datas
              /\ ret'.ref = <<ret'.fd>>
              /\ ret'.fd \in DOMAIN datas'
              /\ <<datas'[ret'.fd]>> = ret'.data)
       /\ (ret.op = "add" /\ ret.res = "Ok"
             /\ ret'.op = "get_data_mut" /\ ret'.fd = ret.fd)
          => (/\ ret'.ref = <<ret.fd>>
              /\ ret.fd \in DOMAIN datas'
              /\ <<datas'[ret'.ref[1]]>> = ret.data)]_vars

C4_Witness ==
    /\ ret.op = "add" /\ ret.res = "Ok"
    /\ ret.ref = <<ret.fd>>
    /\ <<datas[ret.fd]>> = ret.data
    /\ Cardinality(DOMAIN datas) > 1

\* C5: for a descriptor that is not in the table, mod_flags, mod_event and
\* del fail with NotFound, make no kernel call and leave the table alone.
C5_AbsentNotFound ==
    [][(ret'.op \in {"mod_flags", "mod_event", "del"}
          /\ ret'.fd \notin DOMAIN datas)
       => (/\ ret'.res = "NotFound"
           /\ effects' = << >>
           /\ kernel' = kernel
           /\ datas' = datas)]_vars

C5_Witness ==
    /\ ret.op \in {"mod_flags", "mod_event", "del"}
    /\ ret.res = "NotFound"
    /\ ret.fd \notin DOMAIN datas
    /\ datas # << >>

\* C6: mod_flags(d, f) on a registered d makes one kernel modify call that
\* carries the token stored for d and the flags f; the table is the same
\* afterwards whether the kernel accepted or not.
C6_ModFlagsKeepsToken ==
    [][(ret'.op = "mod_flags" /\ ret'.fd \in DOMAIN datas)
       => LET d == ret'.fd
          IN /\ Len(effects') = 1
             /\ effects'[1].kind = "ctl"
             /\ effects'[1].op = "EPOLL_CTL_MOD"
             /\ effects'[1].fd = d
             /\ effects'[1].data = datas[d]
             /\ <<effects'[1].flags>> = ret'.flags
             /\ datas' = datas
             /\ IF effects'[1].ok
                THEN kernel' = Insert(kernel, d,
                                      Event(ret'.flags[1], datas[d]))
                ELSE kernel' = kernel]_vars

C6_Witness ==
    /\ ret.op = "mod_flags" /\ ret.res = "Ok"
    /\ ret.fd \in DOMAIN datas
    /\ <<kernel[ret.fd].flags>> = ret.flags
    /\ kernel[ret.fd].data = datas[ret.fd]
    /\ Cardinality(DOMAIN datas) > 1

\* C7: mod_event(d, event) on a registered d: if the kernel accepts, the
\* table holds the new token and the call returns the old token and a
\* reference to the slot; if the kernel refuses, the call returns the OS
\* error and the table still holds the old token.
C7_ModEventSwaps ==
    [][(ret'.op = "mod_event" /\ ret'.fd \in DOMAIN datas)
       => LET d == ret'.fd
          IN IF KernelFailed(effects')
             THEN /\ ret'.res = "OsError"
                  /\ ret'.old = << >>
                  /\ ret'.ref = << >>
                  /\ datas' = datas
             ELSE /\ CtlCalls(effects') # {}
                  /\ ret'.res = "Ok"
                  /\ ret'.old = <<datas[d]>>
                  /\ ret'.ref = <<d>>
                  /\ datas' = Insert(datas, d, ret'.data[1])]_vars

C7_Witness ==
    /\ ret.op = "mod_event" /\ ret.res = "Ok"
    /\ ret.old # ret.data
    /\ <<datas[ret.fd]>> = ret.data

\* C8: a successful del(d) takes d out of the table and returns the token
\* last given for d (by add or by the latest successful mod_event); del
\* right after add(d, t) returns t and leaves the table as it was before
\* the add.
C8_DelReturnsToken ==
    [][(ret'.op = "del" /\ ret'.res = "Ok")
       => LET d == ret'.fd
          IN /\ d \in DOMAIN datas
             /\ d \notin DOMAIN datas'
             /\ datas' = Remove(datas, d)
             /\ ret'.old = <<given[d]>>
             /\ (ret.op = "add" /\ ret.res = "Ok" /\ ret.fd = d)
                => (ret'.old = ret.data /\ datas' = ret.before)]_vars

C8_Witness ==
    /\ ret.op = "del" /\ ret.res = "Ok"
    /\ ret.old # << >>
    /\ ret.fd \notin DOMAIN datas
    /\ datas # << >>

\* C9: del(d) on a registered d whose kernel call fails returns the OS
\* error, hands no token out, and d keeps its token in the table.
C9_DelKernelFailure ==
    [][(ret'.op = "del" /\ ret'.fd \in DOMAIN datas
          /\ KernelFailed(effects'))
       => (/\ ret'.res = "OsError"
           /\ ret'.old = << >>
           /\ datas' = datas)]_vars

C9_Witness ==
    /\ ret.op = "del" /\ ret.res = "OsError"
    /\ KernelFailed(effects)
    /\ ret.fd \in DOMAIN datas
    /\ datas = ret.before

\* C10: a call of add, mod_flags, mod_event or del that passes its presence
\* check makes exactly one kernel control call; the table is written only
\* after that call returned success, and not at all when it failed.
C10_KernelBeforeTable ==
    [][(/\ ret'.op \in {"add", "mod_flags", "mod_event", "del"}
        /\ (ret'.op = "add") = (ret'.fd \notin DOMAIN datas))
       => (/\ Cardinality(CtlCalls(effects')) = 1
           /\ \A i \in DOMAIN effects' :
                 effects'[i].kind = "table"
                 => \E j \in 1..(i - 1) :
                       effects'[j].kind = "ctl" /\ effects'[j].ok
           /\ datas' # datas
              => \E i \in DOMAIN effects' : effects'[i].kind = "table"
           /\ KernelFailed(effects') => datas' = datas)]_vars

C10_Witness ==
    /\ ret.op = "mod_event"
    /\ Len(effects) = 2
    /\ effects[1].kind = "ctl" /\ effects[1].ok
    /\ effects[2].kind = "table"
    /\ datas # ret.before
\* C11: the set of registered descriptors, in the table and in the kernel,
\* changes only by a successful add, which inserts exactly its descriptor,
\* or by a successful del, which removes exactly its descriptor; mod_flags,
\* mod_event, get_data_mut, wait and resize_buffer leave both sets alone.
C11_OnlyAddDelChangeSet ==
    [][LET T == DOMAIN datas
           K == DOMAIN kernel
       IN /\ (DOMAIN datas' # T \/ DOMAIN kernel' # K) =>
                /\ ret'.res = "Ok"
                /\ \/ /\ ret'.op = "add"
                      /\ ret'.fd \notin T \cup K
                      /\ DOMAIN datas' = T \cup {ret'.fd}
                      /\ DOMAIN kernel' = K \cup {ret'.fd}
                   \/ /\ ret'.op = "del"
                      /\ ret'.fd \in T \cap K
                      /\ DOMAIN datas' = T \ {ret'.fd}
                      /\ DOMAIN kernel' = K \ {ret'.fd}
          /\ ret'.op \in {"mod_flags", "mod_event", "get_data_mut", "wait",
                          "resize_buffer"} =>
                DOMAIN datas' = T /\ DOMAIN kernel' = K
      ]_vars

C11_Witness ==
    /\ ret.op = "mod_event" /\ ret.res = "OsError"
    /\ DOMAIN datas = RawFds
    /\ DOMAIN kernel = RawFds

\* C12: after a successful wait in which the kernel reported k events, the
\* returned slice has exactly k elements, the buffer length is k, and
\* 0 <= k <= the buffer capacity passed to the kernel as maxevents.
C12_SliceLength ==
    (ret.op = "wait" /\ ret.res = "Ok") =>
       LET k == effects[1].n
       IN /\ Len(effects) = 1 /\ effects[1].kind = "wait"
          /\ Len(events) = k
          /\ buffer.len = k
          /\ 0 <= k /\ k <= buffer.cap
          /\ effects[1].data = buffer.cap
          /\ \A i \in DOMAIN events : events[i] # Uninit

C12_Witness ==
    /\ ret.op = "wait" /\ ret.res = "Ok"
    /\ Len(events) = MaxCap
    /\ effects[1].n = buffer.cap
    /\ Cardinality(DOMAIN kernel) > buffer.cap

\* C13: every event a successful wait returns belongs to a descriptor that
\* is registered, and its flags are among the interest flags most recently
\* registered for that descriptor by add, mod_flags or mod_event, plus the
\* error and hang-up bits.
C13_EventsOfRegistered ==
    (ret.op = "wait" /\ ret.res = "Ok") =>
       \A i \in DOMAIN events :
          /\ events[i].fd \in DOMAIN datas
          /\ events[i].fd \in DOMAIN registered
          /\ events[i].flags \subseteq
                registered[events[i].fd] \cup UnsolicitedBits

C13_Witness ==
    /\ ret.op = "wait" /\ ret.res = "Ok"
    /\ Len(events) > 0
    /\ events[1].flags = {"EPOLLIN", "EPOLLERR", "EPOLLHUP"}
    /\ ret.before # << >>

\* C14: a wait makes exactly one kernel wait call; when that call fails the
\* wait returns the OS error, exposes no batch and leaves the table, the
\* kernel's interest list and the buffer as they were.
C14_WaitOnce ==
    [][ret'.op = "wait" =>
         /\ Len(effects') = 1
         /\ effects'[1].kind = "wait"
         /\ datas' = datas
         /\ ~effects'[1].ok =>
               /\ ret'.res = "OsError"
               /\ events' = << >>
               /\ kernel' = kernel
               /\ buffer' = buffer
         /\ effects'[1].ok => ret'.res = "Ok"
      ]_vars

C14_Witness ==
    /\ ret.op = "wait" /\ ret.res = "OsError"
    /\ events = << >>
    /\ datas # << >>

\* C20: get_datas and get_data_mut are lookups: no kernel call, no change
\* to the table or the kernel, an entry is found exactly when the
\* descriptor is registered, and a batch that is being iterated stays as
\* it is, so the token of a descriptor other than the event's can be
\* reached through the table the batch lends out.
C20_PureLookup ==
    [][ret'.op = "get_data_mut" =>
         /\ effects' = << >>
         /\ datas' = datas /\ kernel' = kernel /\ events' = events
         /\ GetDatas' = datas
         /\ ret'.ref = IF ret'.fd \in DOMAIN datas THEN <<ret'.fd>>
                       ELSE << >>
      ]_vars

C20_Witness ==
    /\ ret.op = "get_data_mut"
    /\ Len(events) > 0
    /\ ret.ref = <<ret.fd>>
    /\ events[1].fd # ret.fd
    /\ events[1].fd \in DOMAIN datas

\* C15: owning token kind: a payload handed to the monitor through add or
\* mod_event, or stored in the table, has after every step an owner that
\* can release it (the table, or the caller it was handed back to) or has
\* been released; this includes the calls whose kernel call fails.
C15_HandedInNeverLost ==
    [][\A p \in Tokens :
          (\/ Entries(p) # {}
           \/ ret'.op \in {"add", "mod_event"} /\ ret'.data = <<p>>) =>
             \/ Entries(p)' # {}
             \/ held'[p] > 0
             \/ heap'[p].rel > 0
      ]_vars

\* C16: owning token kind: no payload is released more than once, under any
\* sequence of add, wait, reads and replacements of the batch's tokens,
\* mod_event, del, close, teardown and release.
C16_NoDoubleRelease == \A p \in Tokens : heap[p].rel <= 1

\* C17: close returns the registration table exactly as the call found
\* it, whether the kernel close succeeded or failed, and releases no
\* payload: every token of the table is handed to the caller.
C17_CloseReturnsTable ==
    [][ret'.op = "close" =>
         /\ Len(effects') = 1 /\ effects'[1].kind = "close"
         /\ ret'.res = IF effects'[1].ok THEN "Ok" ELSE "OsError"
         /\ ret'.old = <<datas>>
         /\ \A p \in Tokens :
               /\ heap'[p] = heap[p]
               /\ held'[p] = held[p] + Cardinality(Entries(p))
      ]_vars

C17_Witness ==
    /\ ret.op = "close" /\ ret.res = "OsError"
    /\ DOMAIN ret.old[1] = RawFds
    /\ \A fd \in RawFds :
          held[ret.old[1][fd]] > 0 /\ heap[ret.old[1][fd]].rel = 0

\* C18: owning token kind: teardown closes the monitor and releases the
\* payload of every descriptor registered at that moment once per
\* descriptor, whatever the kernel close answered; no registered payload
\* stays unreleased and no other payload is touched.
C18_DropReleasesAll ==
    [][ret'.op = "drop" =>
         /\ Len(effects') = 1 /\ effects'[1].kind = "close"
         /\ closed' /\ datas' = << >>
         /\ held' = held
         /\ \A p \in Tokens :
               /\ heap'[p].rel = heap[p].rel + Cardinality(Entries(p))
               /\ Entries(p) # {} => heap'[p].rel >= 1
               /\ heap'[p].alloc = heap[p].alloc
      ]_vars

C18_Witness ==
    /\ ret.op = "drop" /\ ret.res = "OsError"
    /\ DOMAIN ret.before = RawFds
    /\ \A fd \in RawFds : heap[ret.before[fd]].rel = 1
    /\ \A p \in Tokens : held[p] = 0

\* C19: cloning an owning token yields a token to a new allocation whose
\* payload equals the original's; writing to or releasing the payload of
\* one token leaves every other allocation, the clone's or the original's
\* among them, as it was.
C19_CloneIsSeparate ==
    [][/\ ret'.op = "clone" =>
            LET orig == ret'.data[1]
                copy == ret'.old[1]
            IN /\ copy # orig
               /\ ~heap[copy].alloc
               /\ heap'[copy] = [alloc |-> TRUE, rel |-> 0,
                                 val |-> heap[orig].val]
               /\ \A q \in Tokens \ {copy} : heap'[q] = heap[q]
               /\ held'[copy] = 1
       /\ ret'.op \in {"ptr_mut", "into_inner"} =>
            \A q \in Tokens \ {ret'.data[1]} : heap'[q] = heap[q]
      ]_vars

C19_Witness ==
    /\ ret.op = "clone"
    /\ ret.data # ret.old
    /\ heap[ret.old[1]].val = "b"
    /\ heap[ret.data[1]].val = "b"
    /\ Live(ret.old[1]) /\ Live(ret.data[1])

\* C21: for MaxEvents, TimeOut and ReadSize and every argument n, new(n)
\* succeeds exactly when MIN <= n <= MAX; the value it gives converts back
\* to n, and a failure carries n unchanged.
C21_NewIffInRange ==
    \A ty \in BoundedTypes :
       ret.op = Name(ty, "new") =>
          LET n == ret.data[1]
          IN /\ ret.res \in {"Ok", "Err"}
             /\ ret.res = "Ok" <=> (Into(MIN(ty)) <= n /\ n <= Into(MAX(ty)))
             /\ ret.res = "Ok" => Into(ret.old[1]) = n
             /\ ret.res = "Err" => ret.old[1] = n

C21_Witness ==
    /\ ret.op = "MaxEvents::new"
    /\ ret.res = "Err"
    /\ ret.data[1] = CIntMax + 1

\* C22: for MaxEvents, TimeOut and ReadSize and every argument n, from(n)
\* gives a value inside [MIN, MAX]: n itself when n is in range, MAX when n
\* is above the range; every value given by new, from, default or a named
\* constant is in range.
C22_FromInRange ==
    \A ty \in BoundedTypes :
       /\ ret.op = Name(ty, "from") =>
             LET n == ret.data[1]
                 v == Into(ret.old[1])
             IN /\ ret.res = "Value"
                /\ (Into(MIN(ty)) <= n /\ n <= Into(MAX(ty))) => v = n
                /\ n > Into(MAX(ty)) => v = Into(MAX(ty))
       /\ (ret.op \in {Name(ty, f) : f \in {"new", "from", "default", "MIN",
                                             "MAX", "DEFAULT", "INFINITE",
                                             "INSTANT"}}
           /\ ret.res \in {"Ok", "Value"}) =>
             /\ Into(MIN(ty)) <= Into(ret.old[1])
             /\ Into(ret.old[1]) <= Into(MAX(ty))

C22_Witness ==
    /\ ret.op = "MaxEvents::from"
    /\ ret.data[1] = UsizeMax
    /\ ret.old[1] = MaxEventsMAX

\* C23: for MaxEvents, TimeOut and ReadSize and every argument n below the
\* range, from(n) gives the range minimum MIN.
C23_FromClampsToMin ==
    \A ty \in BoundedTypes :
       (ret.op = Name(ty, "from") /\ ret.data[1] < Into(MIN(ty))) =>
          ret.old[1] = MIN(ty)

\* C24: in utils/mod.rs and in lib.rs, read_until_wouldblock ends in one
\* of three outcomes, decided by the first read that delivers no data:
\* end-of-stream when it returns zero bytes, would-block when it fails with
\* the kind WouldBlock, and an error carrying the failure for every other
\* kind; end-of-stream and would-block are not reported as an error.
C24_ThreeOutcomes ==
    (drain.pc = "done" /\ drain.version \in {"utils/mod.rs", "lib.rs"}) =>
       /\ drain.last \in {"zero"} \cup ErrorKinds
       /\ drain.last = "zero" => drain.result.tag = "EndOfFile"
       /\ drain.last = "WouldBlock" => drain.result.tag \in {"WouldBlock", "Ok"}
       /\ drain.last \in ErrorKinds \ {"WouldBlock"} =>
             /\ drain.result.tag \in {"Error", "Err"}
             /\ drain.result.kind = drain.last
       /\ drain.last \in {"zero", "WouldBlock"} =>
             drain.result.tag \notin {"Error", "Err"}

\* C25: in utils/mod.rs and utils.rs, when read_until_wouldblock returns
\* WouldBlock(t) or EndOfFile(t), t is the number of bytes the successful
\* reads of the call delivered, the length of output has grown by t, the
\* bytes output held before are unchanged, and the bytes after them are the
\* delivered bytes in order.
C25_TotalAndContents ==
    (/\ drain.pc = "done"
     /\ drain.version \in {"utils/mod.rs", "utils.rs"}
     /\ drain.result.tag \in {"WouldBlock", "EndOfFile", "EOF"}) =>
       /\ drain.result.v = drain.delivered
       /\ drain.len = drain.len0 + drain.result.v
       /\ drain.output = Old(drain.len0) \o [i \in 1..drain.delivered |-> i]

\* C26: in utils/mod.rs, after every read that delivers one or more bytes,
\* a whole chunk or less, the loop goes on to another read, and the
\* function returns only after a read that returns zero bytes or fails.
C26_ReadsUntilNoData ==
    /\ [][(drain.version = "utils/mod.rs" /\ drain.pc # "done"
           /\ drain'.pc = "done") =>
             (drain.pc = "read" /\ drain'.last # "data")]_vars
    /\ \A k \in 1..MaxStream :
          (drain.version = "utils/mod.rs" /\ drain.pc = "loop"
           /\ drain.last = "data" /\ drain.reads = k)
             ~> (drain.version = "utils/mod.rs" /\ drain.reads = k + 1)

\* A read of a whole chunk and a shorter one were each followed by another
\* read.
C26_Witness ==
    /\ drain.version = "utils/mod.rs"
    /\ drain.pc = "done"
    /\ drain.read_size = 2
    /\ drain.delivered = 3
    /\ drain.reads = 3

\* C27: in utils/mod.rs and utils.rs, when output has no spare capacity at
\* the call (capacity = length, whatever the length), its capacity has
\* grown by at least read_size when the first read is attempted.
C27_GrownBeforeFirstRead ==
    (/\ drain.pc = "read"
     /\ drain.reads = 0
     /\ drain.version \in {"utils/mod.rs", "utils.rs"}
     /\ drain.cap0 = drain.len0) =>
       drain.cap >= drain.cap0 + drain.read_size

\* C28: in utils/mod.rs and utils.rs, an iteration increases the capacity
\* of output only when capacity - length is smaller than read_size at that
\* point; when it is at least read_size, reserve is not called.
C28_ReserveOnlyWhenShort ==
    [][(/\ drain.pc = "loop"
        /\ drain'.pc = "read"
        /\ drain.version \in {"utils/mod.rs", "utils.rs"}) =>
          /\ drain'.cap > drain.cap =>
                drain.cap - drain.len < drain.read_size
          /\ drain.cap - drain.len >= drain.read_size =>
                (~drain'.reserved /\ drain'.cap = drain.cap)]_vars

\* An iteration that grew the capacity after a first read, and one that
\* found room and did not.
C28_Witness ==
    /\ drain.pc = "read"
    /\ drain.version = "utils.rs"
    /\ drain.reads = 1
    /\ drain.reserved
    /\ drain.cap > drain.cap0

\* C29: after EPoll::new(_, m) and after every resize_buffer(m) the
\* capacity of the wait buffer is at least m and at least 1, so the
\* maxevents argument of every kernel wait call is at least the bound asked
\* for last and is not zero.
C29_CapacityAtLeastBound ==
    /\ (ret.op \in {"new", "resize_buffer"} /\ ret.res = "Ok"
        /\ ret.data # << >>) =>
          /\ buffer.cap >= ret.data[Len(ret.data)]
          /\ handle.max_events = ret.data[Len(ret.data)]
    /\ buffer.cap >= handle.max_events
    /\ buffer.cap >= 1
    /\ \A i \in DOMAIN effects :
          effects[i].kind = "wait" =>
             /\ effects[i].data = buffer.cap
             /\ effects[i].data >= handle.max_events
             /\ effects[i].data >= 1

\* A wait on a monitor made by new(_, 2).
C29_Witness ==
    /\ ret.op = "wait"
    /\ handle.max_events = MaxBound
    /\ \E i \in DOMAIN effects :
          effects[i].kind = "wait" /\ effects[i].data >= MaxBound

\* C30: a monitor made by EPoll::new(close_exec, _) has the close-on-exec
\* flag on its kernel handle exactly when close_exec is true, and its
\* registration table is empty.
C30_NewSetsCloseExec ==
    (ret.op = "new" /\ ret.res = "Ok" /\ ret.data # << >>) =>
       /\ handle.cloexec = ret.data[1]
       /\ datas = << >>
       /\ kernel = << >>

\* new(true, _) succeeded while a descriptor was registered with the
\* monitor before it.
C30_Witness ==
    /\ ret.op = "new"
    /\ ret.res = "Ok"
    /\ ret.data # << >>
    /\ ret.data[1] = TRUE
    /\ handle.cloexec
    /\ ret.before # << >>
    /\ \E i \in DOMAIN effects : effects[i].kind = "create"

\* C31: in utils.rs and utils/mod.rs, at every read attempt, whatever the
\* length and capacity of output at the call and whatever read_size, the
\* length of output plus read_size is at most its capacity: the slice
\* handed to the reader lies inside the allocation.
C31_SliceInsideAllocation ==
    (drain.pc = "read" /\ drain.version \in {"utils.rs", "utils/mod.rs"}) =>
       drain.len + drain.read_size <= drain.cap

\* C32: for every registered descriptor the token the kernel holds equals
\* the token in the registration table, after any sequence of add,
\* mod_flags, mod_event, get_data_mut, assignments through the reference it
\* returns, and wait; the token of every event of a batch is the table's
\* token of the event's descriptor.
C32_KernelTokenIsTableToken ==
    /\ \A fd \in DOMAIN datas \cap DOMAIN kernel :
          kernel[fd].data = datas[fd]
    /\ (ret.op = "wait" /\ ret.res = "Ok") =>
          \A i \in DOMAIN events :
             events[i].fd \in DOMAIN datas =>
                events[i].data = datas[events[i].fd]

\* C33: in utils/mod.rs and utils.rs, when read_until_wouldblock ends with
\* Error, the error is that of the last read made, whatever its kind
\* (Interrupted too): the read was not made again; the bytes the successful
\* reads before it delivered are in output, in order, after the bytes
\* output held before, which are unchanged.
C33_ErrorKeepsBytes ==
    (/\ drain.pc = "done"
     /\ drain.version \in {"utils/mod.rs", "utils.rs"}
     /\ drain.result.tag = "Error") =>
       /\ drain.last = drain.result.kind
       /\ drain.last \in ErrorKinds \ {"WouldBlock"}
       /\ drain.len = drain.len0 + drain.delivered
       /\ drain.output = Old(drain.len0) \o [i \in 1..drain.delivered |-> i]

\* C34: in utils/mod.rs, read_until_wouldblock returns when the reader,
\* after finitely many reads that deliver data, returns zero bytes or
\* fails; every iteration after which the loop goes on has made output
\* longer.
C34_Terminates ==
    /\ (drain.version = "utils/mod.rs" /\ drain.pc \in {"loop", "read"})
          ~> (drain.version = "utils/mod.rs" /\ drain.pc = "done")
    /\ [][(drain.version = "utils/mod.rs" /\ drain.pc = "read"
           /\ drain'.pc = "loop") => drain'.len > drain.len]_vars

\* A call that ended after the reader had delivered all it had.
C34_Witness ==
    /\ drain.version = "utils/mod.rs"
    /\ drain.pc = "done"
    /\ drain.delivered = MaxStream
    /\ drain.reads >= 3
    /\ drain.last = "Interrupted"

\* C35: in utils/mod.rs and utils.rs the chunk size of every read is at
\* least 1: a read_size argument of 0 is replaced by the default 4096
\* before the loop, so that no read is asked for zero bytes and a read
\* that returns zero bytes is the end of the stream.
C35_ChunkAtLeastOne ==
    (drain.pc # "idle" /\ drain.version \in {"utils/mod.rs", "utils.rs"}) =>
       /\ drain.read_size >= 1
       /\ drain.requested = 0 => drain.read_size = Into(ReadSizeDEFAULT)
       /\ drain.requested >= 1 => drain.read_size = drain.requested

\* C36: in the echo server, after every call of write_buffer, whether its
\* mod_flags succeeded or failed, the flags field of the client equals the
\* interest flags registered for the client's stream.
C36_FlagsFieldIsRegistered ==
    (server.wb.res # "none" /\ server.wb.fd \in DOMAIN server.clients) =>
        /\ server.wb.fd \in DOMAIN kernel
        /\ server.clients[server.wb.fd].flags = kernel[server.wb.fd].flags

\* write_buffer failed in mod_flags, with bytes left after a write that
\* would block.
C36_Witness ==
    /\ server.wb.res = "Err"
    /\ server.wb.fd \in DOMAIN server.clients
    /\ server.clients[server.wb.fd].buffer > 0
    /\ server.clients[server.wb.fd].flags = ServerFlags
    /\ server.dels # << >>
    /\ server.pc = "write"

\* C37: in the echo server, whenever write_buffer returns Ok, EPOLLOUT is
\* registered for the client exactly when its buffer is not empty.
C37_WriteInterestIffPending ==
    (server.wb.res = "Ok" /\ server.wb.fd \in DOMAIN server.clients) =>
        /\ server.wb.fd \in DOMAIN kernel
        /\ "EPOLLOUT" \in kernel[server.wb.fd].flags
               <=> server.clients[server.wb.fd].buffer > 0

\* write_buffer returned Ok after a write that would block, and write
\* interest is registered.
C37_Witness ==
    /\ server.wb.res = "Ok"
    /\ server.wb.fd \in DOMAIN kernel
    /\ "EPOLLOUT" \in kernel[server.wb.fd].flags
    /\ server.clients[server.wb.fd].buffer > 0

\* C38: in the echo server, every descriptor in the deletion queue is
\* registered and is queued once, and no del of the loop after a batch
\* returns NotFound.
C38_QueuedOnceAndRegistered ==
    /\ \A j \in 1..Len(server.dels) :
          /\ server.dels[j] \in DOMAIN datas
          /\ \A l \in 1..Len(server.dels) :
                server.dels[l] = server.dels[j] => l = j
    /\ ~(server.pc = "panicked" /\ ret.op = "del" /\ ret.res = "NotFound")

====
